---- MODULE Spec2Model ----
(***************************************************************************)
(* Kindle highlight processing: the text pipeline of                       *)
(* MyClippings_Highlight_Parser.py.                                        *)
(*                                                                         *)
(*   clean_file_content  ->  parse_clippings  ->  save_highlights_to_files *)
(*                                                                         *)
(* Texts are TLA+ strings, handled character by character with Len, SubSeq *)
(* and \o, so that the line scan, the regular expressions and the string   *)
(* methods of the program are computed the way Python computes them.       *)
(***************************************************************************)
EXTENDS Integers, Sequences, FiniteSets, TLC

VARIABLES
    pc,        \* position in the pipeline: "start", "cleaned", "parsed", "saved"
    clips,     \* the clippings the e-reader wrote into the file (input)
    file,      \* text of the clippings file
    content,   \* value returned by clean_file_content
    err,       \* exception raised by the last call ("none" when it returned)
    books,     \* value returned by parse_clippings: the dict, in insertion order
    fs,        \* output directory: file name -> file text
    results,   \* value returned by the last save_highlights_to_files
    runs,      \* number of save_highlights_to_files calls made so far
    bytes,     \* bytes of the file handed to the functions that open a path
    read,      \* value returned by read_file_with_encoding (code points)
    simplified, \* value returned by simplify_highlights
    gui        \* the KindleHighlightsGUI object, its worker threads and Tk

vars == <<pc, clips, file, content, err, books, fs, results, runs,
          bytes, read, simplified, gui>>

(***************************************************************************)
(* Bounds of the model.                                                    *)
(***************************************************************************)
MaxClips == 3
MaxBooks == 2
MaxRuns == 2

(***************************************************************************)
(* The KindleHighlightsGUI object.  __init__ (lines 281-282) clears both   *)
(* flags; the process button starts enabled (line 505) and the cancel      *)
(* button disabled (line 524).  script is the set of steps whose check     *)
(* boxes are ticked, handler the place of the Tk thread inside a handler,  *)
(* after the callbacks handed to root.after and not yet run, workers the   *)
(* threads started by start_processing, images the paths of the image      *)
(* files written.                                                          *)
(***************************************************************************)
GuiInit(script) ==
    [is_processing    |-> FALSE,
     cancel_requested |-> FALSE,
     process_button   |-> "normal",
     cancel_button    |-> "disabled",
     script           |-> script,
     handler          |-> "idle",
     after            |-> <<>>,
     workers          |-> <<>>,
     images           |-> {}]

\* The functions called on their own: no window, no thread.
NoGui == GuiInit({})

(***************************************************************************)
(* Python string primitives.                                               *)
(***************************************************************************)
Min(S) == CHOOSE x \in S : \A y \in S : x <= y

Char(s, i) == SubSeq(s, i, i)

\* s[p:p+len(lit)] == lit
StartsAt(s, lit, p) ==
    /\ p >= 1
    /\ p + Len(lit) - 1 <= Len(s)
    /\ SubSeq(s, p, p + Len(lit) - 1) = lit

\* s.find(lit, from), 1-based; 0 when lit does not occur at or after from
Find(s, lit, from) ==
    LET hits == {p \in from .. (Len(s) - Len(lit) + 1) : StartsAt(s, lit, p)}
    IN  IF hits = {} THEN 0 ELSE Min(hits)

\* lit in s
Contains(s, lit) == Find(s, lit, 1) # 0

\* s.split(sep)
RECURSIVE Split(_, _)
Split(s, sep) ==
    LET p == Find(s, sep, 1)
    IN  IF p = 0 THEN <<s>>
        ELSE <<SubSeq(s, 1, p - 1)>> \o Split(SubSeq(s, p + Len(sep), Len(s)), sep)

\* sep.join(parts)
RECURSIVE Join(_, _)
Join(parts, sep) ==
    IF parts = <<>> THEN ""
    ELSE IF Len(parts) = 1 THEN parts[1]
    ELSE parts[1] \o sep \o Join(Tail(parts), sep)

\* s.replace(old, new): every non-overlapping occurrence, left to right
RECURSIVE Replace(_, _, _)
Replace(s, old, new) ==
    LET p == Find(s, old, 1)
    IN  IF p = 0 THEN s
        ELSE SubSeq(s, 1, p - 1) \o new
             \o Replace(SubSeq(s, p + Len(old), Len(s)), old, new)

Whitespace == {" ", "\t", "\n", "\r"}

\* s.strip()
Strip(s) ==
    LET keep == {i \in 1 .. Len(s) : Char(s, i) \notin Whitespace}
    IN  IF keep = {} THEN ""
        ELSE SubSeq(s, Min(keep), CHOOSE i \in keep : \A j \in keep : j <= i)

Upper == "ABCDEFGHIJKLMNOPQRSTUVWXYZ"
LowerCase == "abcdefghijklmnopqrstuvwxyz"

\* c.lower() for one character; u is its place among the capitals
LowerChar(c, u) == IF u = 0 THEN c ELSE Char(LowerCase, u)

\* s.lower(): character by character, the string taken in halves
RECURSIVE Lower(_)
Lower(s) ==
    IF Len(s) = 0 THEN ""
    ELSE IF Len(s) = 1 THEN LowerChar(s, Find(Upper, s, 1))
    ELSE Lower(SubSeq(s, 1, Len(s) \div 2))
         \o Lower(SubSeq(s, Len(s) \div 2 + 1, Len(s)))

\* The byte-order mark U+FEFF, written here as a visible character that no
\* other text of the model uses.  It is not whitespace: strip() keeps it.
BOM == "~"

\* s.encode('utf-8').decode('utf-8-sig'): drops one leading byte-order mark
DecodeUtf8Sig(s) == IF StartsAt(s, BOM, 1) THEN SubSeq(s, 2, Len(s)) ELSE s

(***************************************************************************)
(* clean_file_content: the line scan that removes bookmark entries.        *)
(* Indices are Python's: line i of the model is lines[i-1] of the program. *)
(***************************************************************************)
NoBookmark == -1
SkipSpan == 4

\* Variant: the scan without new_lines.pop(), so the title line of a bookmark
\* entry stays in the output.
RECURSIVE CleanScan_NoPop(_, _, _, _)
CleanScan_NoPop(lines, i, new_lines, last_bookmark_position) ==
    IF i > Len(lines) THEN [err |-> "none", lines |-> new_lines]
    ELSE
        LET line == lines[i]
            mark == Contains(line, "Your Bookmark")
            last == IF mark THEN i - 1 ELSE last_bookmark_position
            keep == last = NoBookmark \/ ~((i - 1) - last < SkipSpan)
        IN  CleanScan_NoPop(lines, i + 1,
                            IF keep THEN Append(new_lines, line) ELSE new_lines,
                            last)

\* Variant: the scan that skips one line fewer after a bookmark line.
RECURSIVE CleanScan_ShortSkip(_, _, _, _)
CleanScan_ShortSkip(lines, i, new_lines, last_bookmark_position) ==
    IF i > Len(lines) THEN [err |-> "none", lines |-> new_lines]
    ELSE
        LET line == lines[i]
            mark == Contains(line, "Your Bookmark")
        IN  IF mark /\ new_lines = <<>>
            THEN [err |-> "IndexError", lines |-> <<>>]
            ELSE
                LET popped == IF mark THEN SubSeq(new_lines, 1, Len(new_lines) - 1)
                              ELSE new_lines
                    last == IF mark THEN i - 1 ELSE last_bookmark_position
                    keep == last = NoBookmark \/ ~((i - 1) - last < SkipSpan - 1)
                IN  CleanScan_ShortSkip(lines, i + 1,
                                        IF keep THEN Append(popped, line) ELSE popped,
                                        last)

\* new_lines.pop(): IndexError on an empty list
RECURSIVE CleanScan(_, _, _, _)
CleanScan(lines, i, new_lines, last_bookmark_position) ==
    IF i > Len(lines) THEN [err |-> "none", lines |-> new_lines]
    ELSE
        LET line == lines[i]
            mark == Contains(line, "Your Bookmark")
        IN  IF mark /\ new_lines = <<>>
            THEN [err |-> "IndexError", lines |-> <<>>]
            ELSE
                LET popped == IF mark THEN SubSeq(new_lines, 1, Len(new_lines) - 1)
                              ELSE new_lines
                    last == IF mark THEN i - 1 ELSE last_bookmark_position
                    keep == last = NoBookmark \/ ~((i - 1) - last < SkipSpan)
                IN  CleanScan(lines, i + 1,
                              IF keep THEN Append(popped, line) ELSE popped,
                              last)

\* return "\n".join(new_lines)
Joined(r) == [err |-> r.err, content |-> IF r.err = "none" THEN Join(r.lines, "\n") ELSE ""]

clean_file_content(text) == Joined(CleanScan(Split(text, "\n"), 1, <<>>, NoBookmark))

(***************************************************************************)
(* parse_clippings: the record pattern                                     *)
(*                                                                         *)
(*   (.*?) \((.*?)\)\n- (A1|A2|A3|A4)\n\n(.*?)\n==========     re.DOTALL    *)
(*     A1 = Your Highlight on .*? \| location .*?                          *)
(*     A2 = Your Highlight at location .*?                                 *)
(*     A3 = Your Highlight on page .*?                                     *)
(*     A4 = Highlight on Page .*?                                          *)
(*                                                                         *)
(* Every quantifier is lazy and, under DOTALL, matches any character, so   *)
(* the backtracking matcher returns the first match in the order: shortest *)
(* group 1, then shortest group 2, then the first alternative that can be  *)
(* completed, then inside it each .*? as short as possible.  A lazy .*?    *)
(* followed by a literal stops at the first occurrence of the literal from *)
(* which the rest of the pattern can still be matched.                     *)
(***************************************************************************)
Delimiter == "\n=========="
AltPrefix == << "Your Highlight on ", "Your Highlight at location ",
                "Your Highlight on page ", "Highlight on Page " >>

\* The part of the pattern after the descriptor's last .*? : \n\n(.*?)\n==========
\* with the blank line found at blank and the delimiter at delim.
TailFound(blank, delim) ==
    IF blank = 0 \/ delim = 0 THEN [ok |-> FALSE]
    ELSE [ok |-> TRUE, srcEnd |-> blank - 1, txtFrom |-> blank + 2,
          txtEnd |-> delim - 1, end |-> delim + Len(Delimiter)]

DelimiterAfter(s, blank) == IF blank = 0 THEN 0 ELSE Find(s, Delimiter, blank + 2)

BlankThenDelimiter(s, blank) == TailFound(blank, DelimiterAfter(s, blank))

\* \n\n(.*?)\n========== from position p on.
TailAt(s, p) == BlankThenDelimiter(s, Find(s, "\n\n", p))

\* The rest of alternative 1 once ' | location ' is found at bar.
AfterBar(s, bar) ==
    IF bar = 0 THEN [ok |-> FALSE] ELSE TailAt(s, bar + Len(" | location "))

\* Alternative k of group 3 and the rest of the pattern, tried at position q.
AltAt(s, k, q) ==
    IF ~StartsAt(s, AltPrefix[k], q) THEN [ok |-> FALSE]
    ELSE IF k = 1
         THEN AfterBar(s, Find(s, " | location ", q + Len(AltPrefix[1])))
         ELSE TailAt(s, q + Len(AltPrefix[k]))

\* The alternation is ordered: the first alternative that completes wins.
FirstOk(tries) ==
    IF \A k \in DOMAIN tries : ~tries[k].ok THEN [ok |-> FALSE]
    ELSE tries[Min({k \in DOMAIN tries : tries[k].ok})]

DescriptorAt(s, q) == FirstOk([k \in 1 .. Len(AltPrefix) |-> AltAt(s, k, q)])

\* The positions after open where ')\n- ' is followed by a descriptor from
\* which the pattern completes.
ClosePositions(s, open) ==
    IF open = 0 THEN {}
    ELSE {p \in (open + 2) .. Len(s) :
            StartsAt(s, ")\n- ", p) /\ DescriptorAt(s, p + 4).ok}

\* The four groups and the end of the match, given where ' (' and ')\n- '
\* are and what the descriptor matched.
Groups(s, from, open, p2, d) ==
    [ok |-> TRUE,
     g1 |-> SubSeq(s, from, open - 1),
     g2 |-> SubSeq(s, open + 2, p2 - 1),
     g3 |-> SubSeq(s, p2 + 4, d.srcEnd),
     g4 |-> SubSeq(s, d.txtFrom, d.txtEnd),
     end |-> d.end]

MatchClosedAt(s, from, open, p2) == Groups(s, from, open, p2, DescriptorAt(s, p2 + 4))

MatchOpenedAt(s, from, open, close) ==
    IF close = {} THEN [ok |-> FALSE] ELSE MatchClosedAt(s, from, open, Min(close))

SearchOpened(s, from, open) == MatchOpenedAt(s, from, open, ClosePositions(s, open))

\* pattern.search(s, from): group 1 starts at from and ends at the first ' ('.
SearchFrom(s, from) == SearchOpened(s, from, Find(s, " (", from))

\* re.findall(pattern, content, re.DOTALL): the non-overlapping matches in order
RECURSIVE FindAll(_, _)
FindAllStep(s, m) ==
    IF ~m.ok THEN <<>>
    ELSE <<[g1 |-> m.g1, g2 |-> m.g2, g3 |-> m.g3, g4 |-> m.g4]>> \o FindAll(s, m.end)

FindAll(s, from) == FindAllStep(s, SearchFrom(s, from))

\* Variant: page_info keeps the phrase 'Your Highlight on '.
Classify_KeepsPhrase(highlight_source) ==
    LET parts == Split(highlight_source, "|")
    IN  IF Contains(Lower(highlight_source), "page")
        THEN IF Len(parts) < 2
             THEN [err |-> "IndexError", page_info |-> "", location_info |-> ""]
             ELSE [err |-> "none",
                   page_info |-> Strip(parts[1]),
                   location_info |-> Strip(Replace(parts[2], "location", ""))]
        ELSE IF Contains(Lower(highlight_source), "location")
        THEN [err |-> "none", page_info |-> "",
              location_info |-> Strip(Replace(parts[1], "Your Highlight at ", ""))]
        ELSE [err |-> "none", page_info |-> "", location_info |-> ""]

\* The page/location policy applied to highlight_source (lines 63-69).
\* split('|')[1] raises IndexError when the descriptor holds no pipe.
Classify(highlight_source) ==
    LET parts == Split(highlight_source, "|")
    IN  IF Contains(Lower(highlight_source), "page")
        THEN IF Len(parts) < 2
             THEN [err |-> "IndexError", page_info |-> "", location_info |-> ""]
             ELSE [err |-> "none",
                   page_info |-> Strip(Replace(parts[1], "Your Highlight on ", "")),
                   location_info |-> Strip(Replace(parts[2], "location", ""))]
        ELSE IF Contains(Lower(highlight_source), "location")
        THEN [err |-> "none", page_info |-> "",
              location_info |-> Strip(Replace(parts[1], "Your Highlight at ", ""))]
        ELSE [err |-> "none", page_info |-> "", location_info |-> ""]

\* One match turned into the fields of a record (lines 58-69).
RecordWith(match, c) ==
    [err |-> c.err,
     book_title |-> Strip(DecodeUtf8Sig(Strip(match.g1))),
     highlight |-> << Strip(match.g4), Strip(match.g2),
                      c.page_info, c.location_info >>]

Record(match) == RecordWith(match, Classify(Strip(match.g3)))

\* Variant: the highlight is inserted at the head of the book's list.
AddToBooks_Prepend(bs, book_title, highlight) ==
    LET at == {i \in 1 .. Len(bs) : bs[i].title = book_title}
    IN  IF at = {}
        THEN Append(bs, [title |-> book_title, highlights |-> <<highlight>>])
        ELSE LET i == CHOOSE j \in at : TRUE
             IN  [bs EXCEPT ![i].highlights = <<highlight>> \o @]

\* Variant: a book is looked up by title and author, so one title with two
\* authors becomes two entries.
AddToBooks_ByAuthor(bs, book_title, highlight) ==
    LET at == {i \in 1 .. Len(bs) :
                 bs[i].title = book_title /\ bs[i].highlights[1][2] = highlight[2]}
    IN  IF at = {}
        THEN Append(bs, [title |-> book_title, highlights |-> <<highlight>>])
        ELSE LET i == CHOOSE j \in at : TRUE
             IN  [bs EXCEPT ![i].highlights = Append(@, highlight)]

\* books[book_title].append(...), creating the key on first use (lines 71-73).
\* The dict is a sequence of [title, highlights] in insertion order.
AddToBooks(bs, book_title, highlight) ==
    LET at == {i \in 1 .. Len(bs) : bs[i].title = book_title}
    IN  IF at = {}
        THEN Append(bs, [title |-> book_title, highlights |-> <<highlight>>])
        ELSE LET i == CHOOSE j \in at : TRUE
             IN  [bs EXCEPT ![i].highlights = Append(@, highlight)]

\* The loop over the matches; an exception leaves the caller without a dict.
RECURSIVE ParseLoop(_, _, _)
ParseStep(matches, i, bs, r) ==
    IF r.err # "none" THEN [err |-> r.err, books |-> <<>>]
    ELSE ParseLoop(matches, i + 1, AddToBooks(bs, r.book_title, r.highlight))

ParseLoop(matches, i, bs) ==
    IF i > Len(matches) THEN [err |-> "none", books |-> bs]
    ELSE ParseStep(matches, i, bs, Record(matches[i]))

parse_clippings(text) == ParseLoop(FindAll(text, 1), 1, <<>>)

(***************************************************************************)
(* save_highlights_to_files: one text file per book.                       *)
(***************************************************************************)
\* The character class [<>:"/\|?*] of the file-name substitution.
IllegalChars == {"<", ">", ":", "\"", "/", "\\", "|", "?", "*"}

\* re.sub(r'[<>:"/\\|?*]', '', s): character by character, the string
\* taken in halves
RECURSIVE RemoveIllegal(_)
RemoveIllegal(s) ==
    IF Len(s) = 0 THEN ""
    ELSE IF Len(s) = 1 THEN (IF s \in IllegalChars THEN "" ELSE s)
    ELSE RemoveIllegal(SubSeq(s, 1, Len(s) \div 2))
         \o RemoveIllegal(SubSeq(s, Len(s) \div 2 + 1, Len(s)))

\* stripped_title = book_title.split(':')[0].strip()
StrippedTitle(book_title) == Strip(Split(book_title, ":")[1])

\* Variant: the file name is made from the whole title, not from the stem.
FileName_FromFullTitle(book_title) == RemoveIllegal(Strip(book_title)) \o ".txt"

\* file_name = re.sub(...) + '.txt'
FileName(book_title) == RemoveIllegal(StrippedTitle(book_title)) \o ".txt"

\* The block written for the i-th highlight of a book (line 90).
Block(i, book_title, h) ==
    ToString(i) \o ". " \o h[1] \o "\n\t<" \o book_title \o ">(" \o h[2]
    \o ") Your Highlight on " \o h[3] \o " | location " \o h[4] \o "\n\n"

\* Everything the loop of lines 89-90 writes for one book.
RECURSIVE Blocks(_, _, _)
Blocks(book_title, highlights, i) ==
    IF i > Len(highlights) THEN ""
    ELSE Block(i, book_title, highlights[i]) \o Blocks(book_title, highlights, i + 1)

\* Variant: the file is opened for appending.
WriteFile_Append(dir, name, data) ==
    [n \in (DOMAIN dir) \cup {name} |->
        IF n = name THEN (IF name \in DOMAIN dir THEN dir[name] ELSE "") \o data
        ELSE dir[n]]

\* Variant: an existing file is left as it is.
WriteFile_KeepExisting(dir, name, data) ==
    [n \in (DOMAIN dir) \cup {name} |->
        IF n \in DOMAIN dir THEN dir[n] ELSE data]

\* open(file_path, 'w') ... write ... close: the file holds what was written,
\* whatever it held before.
WriteFile(dir, name, data) ==
    [n \in (DOMAIN dir) \cup {name} |-> IF n = name THEN data ELSE dir[n]]

\* The loop over books.items() (lines 83-92).
RECURSIVE SaveLoop(_, _, _, _)
SaveLoop(bs, i, dir, res) ==
    IF i > Len(bs) THEN [fs |-> dir, results |-> res]
    ELSE LET b == bs[i]
         IN  SaveLoop(bs, i + 1,
                      WriteFile(dir, FileName(b.title), Blocks(b.title, b.highlights, 1)),
                      Append(res, <<StrippedTitle(b.title), Len(b.highlights)>>))

save_highlights_to_files(bs, dir) == SaveLoop(bs, 1, dir, <<>>)

(***************************************************************************)
(* extract_book_info: the search for a tag, a bracketed title directly     *)
(* followed by a parenthesised author.  A match opens at a '<' whose first *)
(* following '>' is directly followed by an opening parenthesis that has a *)
(* closing one somewhere after it; the leftmost such '<' wins.             *)
(***************************************************************************)
TagAt(s, p, gt) ==
    /\ gt # 0
    /\ StartsAt(s, "(", gt + 1)
    /\ Find(s, ")", gt + 2) # 0

TagOpens(s) ==
    {p \in 1 .. Len(s) : Char(s, p) = "<" /\ TagAt(s, p, Find(s, ">", p + 1))}

TagGroups(s, p, gt) ==
    [found     |-> TRUE,
     book_name |-> Strip(Split(SubSeq(s, p + 1, gt - 1), ":")[1]),
     author    |-> Strip(SubSeq(s, gt + 2, Find(s, ")", gt + 2) - 1))]

TagFrom(s, opens) ==
    IF opens = {} THEN [found |-> FALSE, book_name |-> "", author |-> ""]
    ELSE TagGroups(s, Min(opens), Find(s, ">", Min(opens) + 1))

extract_book_info(text) == TagFrom(text, TagOpens(text))

(***************************************************************************)
(* format_highlights.                                                      *)
(***************************************************************************)
Separator == "\n\n---\n\n"

\* first position at or after p that does not hold a newline
RECURSIVE RunEnd(_, _)
RunEnd(s, p) == IF p <= Len(s) /\ Char(s, p) = "\n" THEN RunEnd(s, p + 1) ELSE p

\* re.sub(r'\n{2,}', new, s): every maximal run of two or more newlines
RECURSIVE SubBlank(_, _)
SubBlank(s, new) ==
    IF Find(s, "\n\n", 1) = 0 THEN s
    ELSE SubSeq(s, 1, Find(s, "\n\n", 1) - 1) \o new
         \o SubBlank(SubSeq(s, RunEnd(s, Find(s, "\n\n", 1)), Len(s)), new)

\* re.split(r'\n{2,}', s)
RECURSIVE SplitBlank(_)
SplitBlank(s) ==
    IF Find(s, "\n\n", 1) = 0 THEN <<s>>
    ELSE <<SubSeq(s, 1, Find(s, "\n\n", 1) - 1)>>
         \o SplitBlank(SubSeq(s, RunEnd(s, Find(s, "\n\n", 1)), Len(s)))

Digits == "0123456789"

\* position after the digits that begin at p (p itself when there is none)
RECURSIVE DigitsEnd(_, _)
DigitsEnd(s, p) ==
    IF p <= Len(s) /\ Contains(Digits, Char(s, p)) THEN DigitsEnd(s, p + 1) ELSE p

\* lit\d+ at p: the position after the digits, 0 when it does not match
LitDigits(s, lit, p) ==
    IF StartsAt(s, lit, p) /\ DigitsEnd(s, p + Len(lit)) > p + Len(lit)
    THEN DigitsEnd(s, p + Len(lit)) ELSE 0

\* \d+-\d+ at p
Range(s, p) ==
    /\ p # 0
    /\ DigitsEnd(s, p) > p
    /\ StartsAt(s, "-", DigitsEnd(s, p))
    /\ DigitsEnd(s, DigitsEnd(s, p) + 1) > DigitsEnd(s, p) + 1

\* lit\d+-\d+ at p
LitRange(s, lit, p) == StartsAt(s, lit, p) /\ Range(s, p + Len(lit))

\* lit\d+ at p followed by the literal next, then (when ranged) by \d+-\d+
LitDigitsThen(s, lit, p, next, ranged) ==
    /\ LitDigits(s, lit, p) # 0
    /\ StartsAt(s, next, LitDigits(s, lit, p))
    /\ ranged => Range(s, LitDigits(s, lit, p) + Len(next))

\* A metadata group that knows the location-only phrasing alone.
MetaAt_LocationOnly(s, p) == LitRange(s, "Your Highlight at location ", p)

\* The four alternatives of the metadata group, tried at position p.
MetaAt(s, p) ==
    \/ LitDigits(s, "Your Highlight on page ", p) # 0
    \/ LitDigitsThen(s, "Highlight on Page ", p, " | Loc.", FALSE)
    \/ LitRange(s, "Your Highlight at location ", p)
    \/ LitDigitsThen(s, "Your Highlight on page ", p, " | location ", TRUE)

\* first position at or after p that does not hold white space (\s*)
RECURSIVE SkipSpace(_, _)
SkipSpace(s, p) ==
    IF p <= Len(s) /\ Char(s, p) \in Whitespace THEN SkipSpace(s, p + 1) ELSE p

\* s[a..b] holds no newline ('.' does not match one)
OneLine(s, a, b) == \A i \in a .. b : Char(s, i) # "\n"

\* '.*$' from p: the rest is one line, up to the end of the string or up to
\* the newline that ends the string
ToEnd(s, p) ==
    \/ OneLine(s, p, Len(s))
    \/ Len(s) >= p /\ Char(s, Len(s)) = "\n" /\ OneLine(s, p, Len(s) - 1)

\* '\(.*?\)\s*(...).*$' with the '(' at position open
ParenAt(s, open) ==
    /\ StartsAt(s, "(", open)
    /\ \E close \in open + 1 .. Len(s) :
          /\ Char(s, close) = ")"
          /\ OneLine(s, open + 1, close - 1)
          /\ MetaAt(s, SkipSpace(s, close + 1))
          /\ ToEnd(s, SkipSpace(s, close + 1))

\* the whole pattern with its '<' at position p
SuffixAt(s, p) ==
    /\ Char(s, p) = "<"
    /\ \E gt \in p + 1 .. Len(s) :
          /\ Char(s, gt) = ">"
          /\ OneLine(s, p + 1, gt - 1)
          /\ ParenAt(s, SkipSpace(s, gt + 1))

\* re.sub(pattern, '', s): the leftmost match runs to the end of the string
\* (a newline that ends the string stays), so there is at most one.
CutAt(s, starts) ==
    IF starts = {} THEN s
    ELSE SubSeq(s, 1, Min(starts) - 1)
         \o (IF Char(s, Len(s)) = "\n" THEN "\n" ELSE "")

RemoveSuffix(s) == CutAt(s, {p \in 1 .. Len(s) : SuffixAt(s, p)})

\* Variant: a loop body that does not look for the angle brackets.
Keep_AnyChunk(out, highlight, clean_highlight) ==
    IF Strip(highlight) # "" /\ clean_highlight # ""
    THEN Append(out, clean_highlight) ELSE out

\* The body of the loop over the chunks (lines 119-125).
Keep(out, highlight, clean_highlight) ==
    IF Strip(highlight) # "" /\ Contains(highlight, "<") /\ Contains(highlight, ">")
       /\ clean_highlight # ""
    THEN Append(out, clean_highlight) ELSE out

RECURSIVE FormatLoop(_, _, _)
FormatLoop(highlights, i, out) ==
    IF i > Len(highlights) THEN out
    ELSE FormatLoop(highlights, i + 1,
                    Keep(out, highlights[i], Strip(RemoveSuffix(highlights[i]))))

format_highlights(text, book_name, author) ==
    book_name \o "\n" \o author \o Separator
    \o Join(FormatLoop(SplitBlank(SubBlank(text, Separator)), 1, <<>>), Separator)

(***************************************************************************)
(* simplify_highlights.  The directory holds the text of each file; what   *)
(* save_highlights_to_files wrote as UTF-8 decodes under the first         *)
(* encoding that read_file_with_encoding tries.                            *)
(***************************************************************************)
\* s.lstrip(BOM)
RECURSIVE LStripBOM(_)
LStripBOM(s) == IF StartsAt(s, BOM, 1) THEN LStripBOM(SubSeq(s, 2, Len(s))) ELSE s

\* read_file_with_encoding on a file of the directory
ReadSaved(dir, filename) == LStripBOM(dir[filename])

\* s.endswith(suffix)
EndsWith(s, suffix) == StartsAt(s, suffix, Len(s) - Len(suffix) + 1)

\* position of the last '.' of s at or before p, 0 when there is none
RECURSIVE LastDot(_, _)
LastDot(s, p) == IF p = 0 \/ Char(s, p) = "." THEN p ELSE LastDot(s, p - 1)

\* os.path.splitext(filename)[0]: the name up to its last dot; dots that
\* lead the name do not start an extension
SplitextAt(filename, dot) ==
    IF dot = 0 \/ \A i \in 1 .. dot : Char(filename, i) = "." THEN filename
    ELSE SubSeq(filename, 1, dot - 1)

Splitext0(filename) == SplitextAt(filename, LastDot(filename, Len(filename)))

Eligible(filename) == EndsWith(filename, ".txt") /\ ~EndsWith(filename, "-S.txt")

\* Variant: a file is written whether or not a tag was found.
SimplifyFile_WritesUntagged(dir, res, filename, text, tag) ==
    [fs      |-> WriteFile(dir, Splitext0(filename) \o "-S.txt",
                           format_highlights(text, tag.book_name, tag.author)),
     results |-> IF tag.book_name # "" /\ tag.author # ""
                 THEN Append(res, tag.book_name) ELSE res]

\* One file of the loop (lines 147-157), text and tag already read.
SimplifyFile(dir, res, filename, text, tag) ==
    IF tag.book_name # "" /\ tag.author # ""
    THEN [fs      |-> WriteFile(dir, Splitext0(filename) \o "-S.txt",
                                format_highlights(text, tag.book_name, tag.author)),
          results |-> Append(res, tag.book_name)]
    ELSE [fs |-> dir, results |-> res]

SimplifyRead(dir, res, filename, text) ==
    SimplifyFile(dir, res, filename, text, extract_book_info(text))

\* The loop over os.listdir(input_dir), whose order the system chooses.
RECURSIVE SimplifyLoop(_, _, _)
SimplifyLoop(listing, i, r) ==
    IF i > Len(listing) THEN r
    ELSE SimplifyLoop(listing, i + 1,
                      IF Eligible(listing[i])
                      THEN SimplifyRead(r.fs, r.results, listing[i],
                                        ReadSaved(r.fs, listing[i]))
                      ELSE r)

simplify_highlights(dir, listing) ==
    SimplifyLoop(listing, 1, [fs |-> dir, results |-> <<>>])

\* The orders in which os.listdir may return the names of a directory.
Listings(dir) ==
    {l \in [1 .. Cardinality(DOMAIN dir) -> DOMAIN dir] :
        \A i, j \in DOMAIN l : l[i] = l[j] => i = j}

(***************************************************************************)
(* read_file_with_encoding on the bytes of a file.  A file is a sequence   *)
(* of bytes (0 .. 255), a decoded text a sequence of code points.          *)
(***************************************************************************)
\* UTF-8, strict: the number of bytes of the character that byte b begins,
\* 0 when b cannot begin one
CharLen(b) ==
    IF b < 128 THEN 1
    ELSE IF b \in 194 .. 223 THEN 2
    ELSE IF b \in 224 .. 239 THEN 3
    ELSE IF b \in 240 .. 244 THEN 4
    ELSE 0

IsCont(b) == b \in 128 .. 191

\* the second byte of a character: no overlong form, no surrogate, nothing
\* above U+10FFFF
SecondOk(b, b1) ==
    IF b = 224 THEN b1 \in 160 .. 191
    ELSE IF b = 237 THEN b1 \in 128 .. 159
    ELSE IF b = 240 THEN b1 \in 144 .. 191
    ELSE IF b = 244 THEN b1 \in 128 .. 143
    ELSE IsCont(b1)

\* a whole character of n bytes begins at i
WellFormedChar(bs, i, n) ==
    /\ n > 0
    /\ i + n - 1 <= Len(bs)
    /\ n >= 2 => SecondOk(bs[i], bs[i + 1])
    /\ \A k \in i + 2 .. i + n - 1 : IsCont(bs[k])

\* the continuation byte at i belongs to a character that begins before it
Covered(bs, i) ==
    \E j \in 1 .. i - 1 :
        /\ ~IsCont(bs[j])
        /\ CharLen(bs[j]) > i - j
        /\ \A k \in j + 1 .. i - 1 : IsCont(bs[k])

Utf8Valid(bs) ==
    \A i \in 1 .. Len(bs) :
        IF IsCont(bs[i]) THEN Covered(bs, i)
        ELSE WellFormedChar(bs, i, CharLen(bs[i]))

CodePoint(bs, i, n) ==
    IF n = 1 THEN bs[i]
    ELSE IF n = 2 THEN (bs[i] - 192) * 64 + (bs[i + 1] - 128)
    ELSE IF n = 3 THEN (bs[i] - 224) * 4096 + (bs[i + 1] - 128) * 64 + (bs[i + 2] - 128)
    ELSE (bs[i] - 240) * 262144 + (bs[i + 1] - 128) * 4096
         + (bs[i + 2] - 128) * 64 + (bs[i + 3] - 128)

\* the characters that begin in bs[lo .. hi], the range taken in halves
RECURSIVE Utf8Points(_, _, _)
Utf8Points(bs, lo, hi) ==
    IF lo > hi THEN <<>>
    ELSE IF lo = hi
         THEN (IF IsCont(bs[lo]) THEN <<>>
               ELSE <<CodePoint(bs, lo, CharLen(bs[lo]))>>)
    ELSE Utf8Points(bs, lo, (lo + hi) \div 2)
         \o Utf8Points(bs, (lo + hi) \div 2 + 1, hi)

Utf8Decode(bs) ==
    IF Utf8Valid(bs) THEN [ok |-> TRUE, text |-> Utf8Points(bs, 1, Len(bs))]
    ELSE [ok |-> FALSE, text |-> <<>>]

\* the byte-order mark: its code point and its three bytes in UTF-8
BOMPoint == 65279
Utf8BOM == <<239, 187, 191>>

\* utf-8-sig as a file is read with it: UTF-8 after one leading mark, if
\* there is one.  A file that is only the first byte or the first two bytes
\* of the mark leaves the decoder waiting for the rest: it reads as the
\* empty text, without error.
Utf8SigDecode(bs) ==
    IF Len(bs) >= 3 /\ SubSeq(bs, 1, 3) = Utf8BOM
    THEN Utf8Decode(SubSeq(bs, 4, Len(bs)))
    ELSE IF Len(bs) \in 1 .. 2 /\ bs = SubSeq(Utf8BOM, 1, Len(bs))
    THEN [ok |-> TRUE, text |-> <<>>]
    ELSE Utf8Decode(bs)

\* cp1252: the code points of bytes 128 .. 159; five bytes have none (0)
Cp1252High ==
    <<8364, 0, 8218, 402, 8222, 8230, 8224, 8225, 710, 8240, 352, 8249, 338, 0,
      381, 0, 0, 8216, 8217, 8220, 8221, 8226, 8211, 8212, 732, 8482, 353, 8250,
      339, 0, 382, 376>>

Cp1252Point(b) == IF b \in 128 .. 159 THEN Cp1252High[b - 127] ELSE b

Cp1252Decode(bs) ==
    IF \A i \in 1 .. Len(bs) : bs[i] \in 128 .. 159 => Cp1252High[bs[i] - 127] # 0
    THEN [ok |-> TRUE, text |-> [i \in 1 .. Len(bs) |-> Cp1252Point(bs[i])]]
    ELSE [ok |-> FALSE, text |-> <<>>]

\* iso-8859-1: every byte is its own code point
Latin1Decode(bs) == [ok |-> TRUE, text |-> bs]

\* open(filename, 'r', encoding=encoding).read()
Decode(encoding, bs) ==
    IF encoding = "utf-8" THEN Utf8Decode(bs)
    ELSE IF encoding = "utf-8-sig" THEN Utf8SigDecode(bs)
    ELSE IF encoding = "cp1252" THEN Cp1252Decode(bs)
    ELSE Latin1Decode(bs)

\* Variant: the single-byte encodings are tried first.
Encodings_SingleByteFirst == <<"cp1252", "iso-8859-1", "utf-8", "utf-8-sig">>

Encodings == <<"utf-8", "utf-8-sig", "cp1252", "iso-8859-1">>

\* text.lstrip(BOM) on code points
RECURSIVE LStripPoints(_)
LStripPoints(t) ==
    IF t # <<>> /\ Head(t) = BOMPoint THEN LStripPoints(Tail(t)) ELSE t

\* The loop over the encodings (lines 133-139) and the raise after it.
RECURSIVE TryEncodings(_, _)
TryEncodings(bs, i) ==
    IF i > Len(Encodings) THEN [err |-> "ValueError", text |-> <<>>]
    ELSE IF Decode(Encodings[i], bs).ok
         THEN [err |-> "none", text |-> LStripPoints(Decode(Encodings[i], bs).text)]
    ELSE TryEncodings(bs, i + 1)

read_file_with_encoding(bs) == TryEncodings(bs, 1)

(***************************************************************************)
(* Texts and bytes.  A text of the model is a string; its characters are   *)
(* ASCII characters and two visible stand-ins: BOM for U+FEFF and EAcute   *)
(* for U+00E9, the one letter outside ASCII that the inputs use.           *)
(***************************************************************************)
EAcute == "^"

\* the characters 32 .. 95, 97 .. 122 (LowerCase) and 123 .. 125 in the
\* order of their code points
UpTo95 ==
    " !\"#$%&'()*+,-./0123456789:;<=>?@ABCDEFGHIJKLMNOPQRSTUVWXYZ[\\]^_"
From123 == "{|}"

\* ord(c)
PointOf(c) ==
    IF c = BOM THEN BOMPoint
    ELSE IF c = EAcute THEN 233
    ELSE IF c = "\n" THEN 10
    ELSE IF c = "\t" THEN 9
    ELSE IF c = "\r" THEN 13
    ELSE IF Contains(UpTo95, c) THEN Find(UpTo95, c, 1) + 31
    ELSE IF Contains(LowerCase, c) THEN Find(LowerCase, c, 1) + 96
    ELSE Find(From123, c, 1) + 122

\* chr(p), for the code points that texts of the model hold
CharOf(p) ==
    CASE p = BOMPoint -> BOM
      [] p = 233 -> EAcute
      [] p = 10 -> "\n"
      [] p = 9 -> "\t"
      [] p = 13 -> "\r"
      [] p \in 32 .. 95 -> Char(UpTo95, p - 31)
      [] p \in 97 .. 122 -> Char(LowerCase, p - 96)
      [] p \in 123 .. 125 -> Char(From123, p - 122)

\* the string of a sequence of code points t[lo .. hi], taken in halves
RECURSIVE ToText(_, _, _)
ToText(t, lo, hi) ==
    IF lo > hi THEN ""
    ELSE IF lo = hi THEN CharOf(t[lo])
    ELSE ToText(t, lo, (lo + hi) \div 2) \o ToText(t, (lo + hi) \div 2 + 1, hi)

\* chr(p).encode('utf-8'), up to U+FFFF
Utf8Bytes(p) ==
    IF p < 128 THEN <<p>>
    ELSE IF p < 2048 THEN <<192 + (p \div 64), 128 + (p % 64)>>
    ELSE <<224 + (p \div 4096), 128 + ((p \div 64) % 64), 128 + (p % 64)>>

\* chr(p).encode(encoding) where the encoding has the character; cp1252
\* holds ASCII and U+00A0 .. U+00FF as single bytes
BytesOf(encoding, p) == IF encoding = "cp1252" THEN <<p>> ELSE Utf8Bytes(p)

\* s[lo .. hi] encoded, taken in halves
RECURSIVE EncodeRange(_, _, _, _)
EncodeRange(encoding, s, lo, hi) ==
    IF lo > hi THEN <<>>
    ELSE IF lo = hi THEN BytesOf(encoding, PointOf(Char(s, lo)))
    ELSE EncodeRange(encoding, s, lo, (lo + hi) \div 2)
         \o EncodeRange(encoding, s, (lo + hi) \div 2 + 1, hi)

\* the bytes of a file that holds the text s, written under an encoding;
\* utf-8-sig puts the mark first
Encode(encoding, s) ==
    (IF encoding = "utf-8-sig" THEN Utf8BOM ELSE <<>>)
    \o EncodeRange(encoding, s, 1, Len(s))

\* open(file_path, "r", encoding="utf-8").read() and the scan after it
\* (lines 34-48): a file that is not UTF-8 raises before any line is read
CleanBytes(bs, d) ==
    IF d.ok THEN clean_file_content(ToText(d.text, 1, Len(d.text)))
    ELSE [err |-> "UnicodeDecodeError", content |-> ""]

clean_file_path(bs) == CleanBytes(bs, Utf8Decode(bs))

(***************************************************************************)
(* The clippings file.  An entry is five lines: title line, "- " metadata  *)
(* line, blank line, body, delimiter line.                                 *)
(***************************************************************************)
Clip(t, a, m, b) == [title |-> t, author |-> a, meta |-> m, body |-> b]

ExHighlight == Clip("Book A: Subtitle", "Author X",
                    "Your Highlight on page 12 | location 101-105", "t1")
ExBookmark  == Clip("Book A: Subtitle", "Author X",
                    "Your Bookmark on page 12 | location 105", "")
LocHighlight == Clip("Book A: Subtitle", "Author Z",
                     "Your Highlight at location 7-9 | Added on Monday", "t2")
PageOnly    == Clip("B/C", "Y", "Your Highlight on page 3", "t3")
OldStyle    == Clip(BOM \o "B/C", "Y", "Highlight on Page 4 | Loc. 50-52", "p\n\nq")
NoteClip    == Clip("N: O", "W", "Your Note on page 3 | location 5", "n1")
OtherBook   == Clip("Book A: Other", "Author X",
                    "Your Highlight on page 1 | location 2-3", "t5")

Catalog == {ExHighlight, ExBookmark, LocHighlight, PageOnly, OldStyle,
            NoteClip, OtherBook}

RenderClip(c) ==
    c.title \o " (" \o c.author \o ")\n- " \o c.meta \o "\n\n" \o c.body
    \o "\n==========\n"

RECURSIVE RenderFile(_)
RenderFile(cs) ==
    IF cs = <<>> THEN "" ELSE RenderClip(cs[1]) \o RenderFile(Tail(cs))

SeqsUpTo(S, n) == UNION {[1 .. k -> S] : k \in 0 .. n}

EmptyDir == [n \in {} |-> ""]

(***************************************************************************)
(* The pipeline as the application runs it: parse_and_show_books cleans    *)
(* and parses the chosen file, run_processing saves the books.             *)
(***************************************************************************)
Init ==
    /\ clips \in SeqsUpTo(Catalog, MaxClips)
    /\ file = RenderFile(clips)
    /\ pc = "start"
    /\ content = ""
    /\ err = "none"
    /\ books = <<>>
    /\ fs = EmptyDir
    /\ results = <<>>
    /\ runs = 0
    /\ bytes = <<>>
    /\ read = <<>>
    /\ simplified = <<>>
    /\ gui = NoGui

\* content = clean_file_content(filepath), or the exception it raised
Cleaned(r) ==
    /\ err' = r.err
    /\ content' = r.content
    /\ pc' = IF r.err = "none" THEN "cleaned" ELSE "failed"

Clean ==
    /\ pc = "start"
    /\ Cleaned(clean_file_content(file))
    /\ UNCHANGED <<clips, file, books, fs, results, runs, bytes, read, simplified, gui>>

\* books = parse_clippings(content), or the exception it raised
Parsed(r) ==
    /\ err' = r.err
    /\ books' = r.books
    /\ pc' = IF r.err = "none" THEN "parsed" ELSE "failed"

Parse ==
    /\ pc = "cleaned"
    /\ Parsed(parse_clippings(content))
    /\ UNCHANGED <<clips, file, content, fs, results, runs, bytes, read, simplified, gui>>

\* results = save_highlights_to_files(selected_books, output_dir)
Saved(r) ==
    /\ fs' = r.fs
    /\ results' = r.results

Save ==
    /\ pc \in {"parsed", "saved"}
    /\ runs < MaxRuns
    /\ Saved(save_highlights_to_files(books, fs))
    /\ runs' = runs + 1
    /\ pc' = "saved"
    /\ UNCHANGED <<clips, file, content, err, books, bytes, read, simplified, gui>>

Next == Clean \/ Parse \/ Save

Spec == Init /\ [][Next]_vars

(***************************************************************************)
(* save_highlights_to_files on its own: the mapping handed to it is drawn  *)
(* from titles that exercise the stem and the character class, and the     *)
(* output directory may already hold files.                                *)
(***************************************************************************)
EmitTitles == {"Book A: Subtitle", "Book A : Other", "A/B: C/D", "AB",
               "a<b>c|d?e*f", "q\"r\\s"}

EmitHighlights == { << <<"t1", "Author X", "page 12", "101-105">> >>,
                    << <<"t2", "Y", "", "location 7-9">>,
                       <<"p\n\nq", "Y", "Highlight on Page 4", "Loc. 50-52">> >> }

\* A dict has each key once.
EmitMappings ==
    {bs \in SeqsUpTo([title : EmitTitles, highlights : EmitHighlights], MaxBooks) :
        \A i, j \in 1 .. Len(bs) : bs[i].title = bs[j].title => i = j}

StaleDir == [n \in {"Book A.txt", "notes.txt"} |->
                IF n = "Book A.txt" THEN "1. old\n\n" ELSE "keep"]

InitEmit ==
    /\ clips = <<>>
    /\ file = ""
    /\ content = ""
    /\ err = "none"
    /\ books \in EmitMappings
    /\ pc = "parsed"
    /\ fs \in {EmptyDir, StaleDir}
    /\ results = <<>>
    /\ runs = 0
    /\ bytes = <<>>
    /\ read = <<>>
    /\ simplified = <<>>
    /\ gui = NoGui

NextEmit == Save

SpecEmit == InitEmit /\ [][NextEmit]_vars

(***************************************************************************)
(* Step 2 of a run: the per-book files are simplified after they are       *)
(* saved.                                                                  *)
(***************************************************************************)
Simplified(r) ==
    /\ fs' = r.fs
    /\ simplified' = r.results

Simplify ==
    /\ pc = "saved"
    /\ \E listing \in Listings(fs) : Simplified(simplify_highlights(fs, listing))
    /\ pc' = "simplified"
    /\ UNCHANGED <<clips, file, content, err, books, results, runs, bytes, read, gui>>

\* The whole run, from the clippings file to the simplified files.
MaxEntries == 2

\* a highlight whose text holds a blank line, under the usual descriptor
BlankLines == Clip("D", "V", "Your Highlight on page 5 | location 8-9", "r\n\ns")

RunCatalog == Catalog \cup {BlankLines}

InitRun ==
    /\ clips \in SeqsUpTo(RunCatalog, MaxEntries)
    /\ file = RenderFile(clips)
    /\ pc = "start"
    /\ content = ""
    /\ err = "none"
    /\ books = <<>>
    /\ fs = EmptyDir
    /\ results = <<>>
    /\ runs = 0
    /\ bytes = <<>>
    /\ read = <<>>
    /\ simplified = <<>>
    /\ gui = NoGui

NextRun == Clean \/ Parse \/ Save \/ Simplify

SpecRun == InitRun /\ [][NextRun]_vars

\* Saving into, and simplifying, a directory that may already hold files:
\* files of an earlier run, or files the user put there, tagged or not.
MixedDir ==
    [n \in {"old.txt", "plain.txt"} |->
        IF n = "plain.txt" THEN "no tag here\n"
        ELSE "1. a<b\n\n2. c>d\n\n3. e\n\t<T: U>(A) Your Highlight on page 1 | location 1-2\n\n"]

MaxDirBooks == 1

DirMappings == {bs \in EmitMappings : Len(bs) <= MaxDirBooks}

InitDir ==
    /\ clips = <<>>
    /\ file = ""
    /\ content = ""
    /\ err = "none"
    /\ books \in DirMappings
    /\ pc = "parsed"
    /\ fs \in {EmptyDir, StaleDir, MixedDir}
    /\ results = <<>>
    /\ runs = 0
    /\ bytes = <<>>
    /\ read = <<>>
    /\ simplified = <<>>
    /\ gui = NoGui

NextDir == Save \/ Simplify

SpecDir == InitDir /\ [][NextDir]_vars

(***************************************************************************)
(* Reading a file of arbitrary bytes.                                      *)
(***************************************************************************)
MaxBytes == 3

\* bytes that meet every branch of the decoders: ASCII, the three bytes of
\* the mark, a two-byte character, a byte cp1252 maps above 255, a byte
\* cp1252 does not define
ByteAlphabet == {65, 239, 187, 191, 195, 169, 128, 129}

Heads == {<<>>, Utf8BOM, Utf8BOM \o Utf8BOM}

InitRead ==
    /\ \E head \in Heads : \E rest \in SeqsUpTo(ByteAlphabet, MaxBytes) :
          bytes = head \o rest
    /\ pc = "start"
    /\ clips = <<>>
    /\ file = ""
    /\ content = ""
    /\ err = "none"
    /\ books = <<>>
    /\ fs = EmptyDir
    /\ results = <<>>
    /\ runs = 0
    /\ read = <<>>
    /\ simplified = <<>>
    /\ gui = NoGui

HaveRead(r) ==
    /\ err' = r.err
    /\ read' = r.text
    /\ pc' = IF r.err = "none" THEN "read" ELSE "failed"

Read ==
    /\ pc = "start"
    /\ HaveRead(read_file_with_encoding(bytes))
    /\ UNCHANGED <<clips, file, content, books, fs, results, runs, bytes, simplified, gui>>

NextRead == Read

SpecRead == InitRead /\ [][NextRead]_vars


(***************************************************************************)
(* Opening a clippings file as it lies on disk: written as UTF-8, with or  *)
(* without a mark, or as cp1252.                                           *)
(***************************************************************************)
MaxFileClips == 3

Accented ==
    Clip("Caf" \o EAcute, "Author X", "Your Highlight on page 2 | location 3-4", "t6")

FileCatalog == {ExHighlight, ExBookmark, Accented}

Writers == {"utf-8", "utf-8-sig", "cp1252"}

InitFile ==
    /\ clips \in SeqsUpTo(FileCatalog, MaxFileClips)
    /\ file = RenderFile(clips)
    /\ \E encoding \in Writers : bytes = Encode(encoding, file)
    /\ pc = "start"
    /\ content = ""
    /\ err = "none"
    /\ books = <<>>
    /\ fs = EmptyDir
    /\ results = <<>>
    /\ runs = 0
    /\ read = <<>>
    /\ simplified = <<>>
    /\ gui = NoGui

\* parse_and_show_books, line 649: clean_file_content(filepath)
CleanPath ==
    /\ pc = "start"
    /\ Cleaned(clean_file_path(bytes))
    /\ UNCHANGED <<clips, file, books, fs, results, runs, bytes, read, simplified, gui>>

NextFile == CleanPath \/ Parse

SpecFile == InitFile /\ [][NextFile]_vars

(***************************************************************************)
(* The line scan on its own: files of up to MaxLines lines, any of which   *)
(* may hold the bookmark marker.  Every line carries its number, so that   *)
(* the lines of the output can be told apart.                              *)
(***************************************************************************)
MaxLines == 8

ScanLine(i, marked) ==
    IF marked THEN "- Your Bookmark on page " \o ToString(i)
    ELSE "line " \o ToString(i)

ScanFile(n, marks) == Join([i \in 1 .. n |-> ScanLine(i, i \in marks)], "\n")

InitScan ==
    /\ \E n \in 1 .. MaxLines : \E marks \in SUBSET (1 .. n) :
          file = ScanFile(n, marks)
    /\ clips = <<>>
    /\ pc = "start"
    /\ content = ""
    /\ err = "none"
    /\ books = <<>>
    /\ fs = EmptyDir
    /\ results = <<>>
    /\ runs = 0
    /\ bytes = <<>>
    /\ read = <<>>
    /\ simplified = <<>>
    /\ gui = NoGui

NextScan == Clean

SpecScan == InitScan /\ [][NextScan]_vars

(***************************************************************************)
(* A failing save.  open(file_path, 'w') (line 88) and file.write (lines   *)
(* 89-90) can raise OSError.  Nothing in save_highlights_to_files catches  *)
(* it, so the exception leaves the loop of line 83 and the function: the   *)
(* books before the failing one have been written, the failing book's file *)
(* is untouched when open failed and otherwise holds the blocks that       *)
(* reached it, and line 92 and the books after it are never reached.       *)
(***************************************************************************)

\* The places where a failing write can leave the k-th file: the file object
\* buffers what lines 89-90 write, so the data on disk can end after any
\* block or inside one.  The ends of the blocks and one place inside the
\* data stand for these.
Cuts(b) ==
    {Len(Blocks(b.title, SubSeq(b.highlights, 1, w), 1)) :
        w \in 0 .. Len(b.highlights)}
    \cup {Len(Blocks(b.title, b.highlights, 1)) \div 2}

\* The directory after the loop of lines 83-92 raised at the k-th book:
\* opened tells whether open (line 88) succeeded, written how many
\* characters reached the file before write or close raised.
FailedSave(bs, dir, k, opened, written) ==
    IF opened
    THEN WriteFile(SaveLoop(SubSeq(bs, 1, k - 1), 1, dir, <<>>).fs,
                   FileName(bs[k].title),
                   SubSeq(Blocks(bs[k].title, bs[k].highlights, 1), 1, written))
    ELSE SaveLoop(SubSeq(bs, 1, k - 1), 1, dir, <<>>).fs

\* run_processing, lines 823-836: the assignment of line 824 never happens,
\* the handler of lines 834-836 logs the error and raises it again, and the
\* run ends.
SaveFails ==
    /\ pc \in {"parsed", "saved"}
    /\ runs < MaxRuns
    /\ \E k \in 1 .. Len(books), opened \in BOOLEAN :
         \E written \in Cuts(books[k]) :
            /\ opened \/ written = 0
            /\ fs' = FailedSave(books, fs, k, opened, written)
    /\ err' = "OSError"
    /\ runs' = runs + 1
    /\ pc' = "failed"
    /\ UNCHANGED <<clips, file, content, books, results, bytes, read, simplified, gui>>

NextFail == Save \/ SaveFails

SpecFail == InitEmit /\ [][NextFail]_vars

(***************************************************************************)
(* run_processing: the three steps as the worker thread executes them.     *)
(* Step 1 calls save_highlights_to_files; steps 2 and 3 are loops written  *)
(* out inside run_processing.  The text operations of step 3 come first.   *)
(***************************************************************************)

\* \w on the characters of the model: letters, digits and the underscore.
IsWord(c) ==
    \/ Contains(Upper, c)
    \/ Contains(LowerCase, c)
    \/ Contains(Digits, c)
    \/ c = "_"
    \/ c = EAcute

\* re.sub(r'[^\w\s]', '', s) (lines 911-912), the string taken in halves
RECURSIVE KeepWordSpace(_)
KeepWordSpace(s) ==
    IF Len(s) = 0 THEN ""
    ELSE IF Len(s) = 1 THEN (IF IsWord(s) \/ s \in Whitespace THEN s ELSE "")
    ELSE KeepWordSpace(SubSeq(s, 1, Len(s) \div 2))
         \o KeepWordSpace(SubSeq(s, Len(s) \div 2 + 1, Len(s)))

\* The pattern of line 917 at p: one to three digits, a full stop, white
\* space.  The position after the match, 0 when there is none: four digits
\* in a row do not match at the first of them.
NumberAt(s, p) ==
    IF /\ DigitsEnd(s, p) - p \in 1 .. 3
       /\ StartsAt(s, ".", DigitsEnd(s, p))
    THEN SkipSpace(s, DigitsEnd(s, p) + 1)
    ELSE 0

\* highlight_pattern.sub('', section) (line 918): every match, left to right
RECURSIVE StripNumbers(_)
StripNumbers(s) ==
    IF \A p \in 1 .. Len(s) : NumberAt(s, p) = 0 THEN s
    ELSE SubSeq(s, 1, Min({p \in 1 .. Len(s) : NumberAt(s, p) # 0}) - 1)
         \o StripNumbers(SubSeq(s,
                NumberAt(s, Min({p \in 1 .. Len(s) : NumberAt(s, p) # 0})),
                Len(s)))

\* f"Highlight_{i + 1:04}.webp" (line 936); n is i + 1
ImageName(n) ==
    "Highlight_"
    \o (IF n < 10 THEN "000" ELSE IF n < 100 THEN "00" ELSE IF n < 1000 THEN "0" ELSE "")
    \o ToString(n) \o ".webp"

\* Lines 909-918 for the text of one '-S.txt' file: the folder of the book
\* and the sections after the header, their numbers removed.  A header of
\* one line makes book_info[1] raise IndexError.
BookOfImages(text) ==
    IF Len(Split(Split(text, Separator)[1], "\n")) < 2
    THEN [err |-> "IndexError", folder |-> "", sections |-> <<>>]
    ELSE [err      |-> "none",
          folder   |-> KeepWordSpace(Strip(Split(Split(text, Separator)[1], "\n")[1])),
          sections |-> [k \in 1 .. Len(Split(text, Separator)) - 1 |->
                           StripNumbers(Split(text, Separator)[k + 1])]]

\* txt_files of line 898: the names of the listing that end in '-S.txt'
RECURSIVE SimplifiedOf(_)
SimplifiedOf(listing) ==
    IF listing = <<>> THEN <<>>
    ELSE (IF EndsWith(Head(listing), "-S.txt") THEN <<Head(listing)>> ELSE <<>>)
         \o SimplifiedOf(Tail(listing))

\* A thread started at line 789, about to enter run_processing.  at is the
\* line the thread executes next, i and j count the iterations of the loop
\* it is in, list is the listing that loop goes over, res the list that
\* save_highlights_to_files builds, outcome what the thread announced.
NewWorker ==
    [at |-> "798", i |-> 0, j |-> 0, list |-> <<>>, res |-> <<>>,
     folder |-> "", sections |-> <<>>, outcome |-> ""]

Workers == 1 .. Len(gui.workers)

\* The variables no handler and no worker step assigns.
GuiFrame == UNCHANGED <<pc, clips, file, content, err, books, runs, bytes, read, simplified>>

\* A return inside the try of line 793 goes to the finally of line 996; the
\* local variables of the steps are not read again.
Return(w) == [gui EXCEPT !.workers[w] = [NewWorker EXCEPT !.at = "997"]]

\* Lines 798-823.  A step that is not ticked is passed over; a ticked step
\* begins unless cancellation was requested.
BeginStep1 ==
    \E w \in Workers :
        /\ gui.workers[w].at = "798"
        /\ gui' = IF 1 \notin gui.script THEN [gui EXCEPT !.workers[w].at = "839"]
                  ELSE IF gui.cancel_requested THEN Return(w)
                  ELSE [gui EXCEPT !.workers[w].at = "save",
                                   !.workers[w].i = 1,
                                   !.workers[w].res = <<>>]
        /\ UNCHANGED <<fs, results>>
        /\ GuiFrame

\* One iteration of the loop of save_highlights_to_files (lines 83-92),
\* called at line 824.  The flag is not read there.
SaveBook ==
    \E w \in Workers :
        /\ gui.workers[w].at = "save"
        /\ gui.workers[w].i <= Len(books)
        /\ fs' = WriteFile(fs, FileName(books[gui.workers[w].i].title),
                           Blocks(books[gui.workers[w].i].title,
                                  books[gui.workers[w].i].highlights, 1))
        /\ gui' = [gui EXCEPT
                     !.workers[w].i = @ + 1,
                     !.workers[w].res =
                         Append(@, <<StrippedTitle(books[gui.workers[w].i].title),
                                     Len(books[gui.workers[w].i].highlights)>>)]
        /\ UNCHANGED results
        /\ GuiFrame

\* Lines 94 and 824: the call returns and results is assigned.
SaveReturns ==
    \E w \in Workers :
        /\ gui.workers[w].at = "save"
        /\ gui.workers[w].i > Len(books)
        /\ results' = gui.workers[w].res
        /\ gui' = [gui EXCEPT !.workers[w].at = "827", !.workers[w].i = 1]
        /\ UNCHANGED fs
        /\ GuiFrame

\* Lines 827-833: the results are logged one by one, the flag read before
\* each of them.
LogResult ==
    \E w \in Workers :
        /\ gui.workers[w].at = "827"
        /\ gui' = IF gui.workers[w].i > Len(results)
                  THEN [gui EXCEPT !.workers[w].at = "839"]
                  ELSE IF gui.cancel_requested THEN Return(w)
                  ELSE [gui EXCEPT !.workers[w].i = @ + 1]
        /\ UNCHANGED <<fs, results>>
        /\ GuiFrame

\* Lines 839-852: step 2 begins with os.listdir(input_dir).
BeginStep2 ==
    \E w \in Workers :
        /\ gui.workers[w].at = "839"
        /\ IF 2 \notin gui.script THEN gui' = [gui EXCEPT !.workers[w].at = "875"]
           ELSE IF gui.cancel_requested THEN gui' = Return(w)
           ELSE \E listing \in Listings(fs) :
                    gui' = [gui EXCEPT !.workers[w].at = "853",
                                       !.workers[w].i = 1,
                                       !.workers[w].list = listing]
        /\ UNCHANGED <<fs, results>>
        /\ GuiFrame

\* Variant: the loop of step 2 without the test of line 853.
SimplifyCheck_NoFlag ==
    \E w \in Workers :
        /\ gui.workers[w].at = "853"
        /\ gui' = IF gui.workers[w].i > Len(gui.workers[w].list)
                  THEN [gui EXCEPT !.workers[w].at = "875"]
                  ELSE IF Eligible(gui.workers[w].list[gui.workers[w].i])
                  THEN [gui EXCEPT !.workers[w].at = "858"]
                  ELSE [gui EXCEPT !.workers[w].i = @ + 1]
        /\ UNCHANGED <<fs, results>>
        /\ GuiFrame

\* Lines 852-857: the flag is read before each name of the listing; a name
\* that is not an input is passed over.
SimplifyCheck ==
    \E w \in Workers :
        /\ gui.workers[w].at = "853"
        /\ gui' = IF gui.workers[w].i > Len(gui.workers[w].list)
                  THEN [gui EXCEPT !.workers[w].at = "875"]
                  ELSE IF gui.cancel_requested THEN Return(w)
                  ELSE IF Eligible(gui.workers[w].list[gui.workers[w].i])
                  THEN [gui EXCEPT !.workers[w].at = "858"]
                  ELSE [gui EXCEPT !.workers[w].i = @ + 1]
        /\ UNCHANGED <<fs, results>>
        /\ GuiFrame

\* Lines 858-867: one input file is read, and written simplified when it
\* holds a tag.  The lines are those of simplify_highlights (149-157).
SimplifyBook ==
    \E w \in Workers :
        /\ gui.workers[w].at = "858"
        /\ fs' = SimplifyRead(fs, <<>>, gui.workers[w].list[gui.workers[w].i],
                              ReadSaved(fs, gui.workers[w].list[gui.workers[w].i])).fs
        /\ gui' = [gui EXCEPT !.workers[w].at = "853", !.workers[w].i = @ + 1]
        /\ UNCHANGED results
        /\ GuiFrame

\* Lines 875-898: step 3 begins with the '-S.txt' names of the directory.
BeginStep3 ==
    \E w \in Workers :
        /\ gui.workers[w].at = "875"
        /\ IF 3 \notin gui.script THEN gui' = [gui EXCEPT !.workers[w].at = "978"]
           ELSE IF gui.cancel_requested THEN gui' = Return(w)
           ELSE \E listing \in Listings(fs) :
                    gui' = [gui EXCEPT !.workers[w].at = "901",
                                       !.workers[w].i = 1,
                                       !.workers[w].list = SimplifiedOf(listing)]
        /\ UNCHANGED <<fs, results>>
        /\ GuiFrame

\* Lines 900-903: the flag is read before each simplified file.
ImagesCheck ==
    \E w \in Workers :
        /\ gui.workers[w].at = "901"
        /\ gui' = IF gui.workers[w].i > Len(gui.workers[w].list)
                  THEN [gui EXCEPT !.workers[w].at = "978"]
                  ELSE IF gui.cancel_requested THEN Return(w)
                  ELSE [gui EXCEPT !.workers[w].at = "905"]
        /\ UNCHANGED <<fs, results>>
        /\ GuiFrame

\* Lines 905-920: the file is read and cut into its sections, the folder of
\* the book is made.  The IndexError of line 912 leaves through the handlers
\* of lines 974 and 989.
ImageBook ==
    \E w \in Workers :
        /\ gui.workers[w].at = "905"
        /\ gui' = IF BookOfImages(fs[gui.workers[w].list[gui.workers[w].i]]).err # "none"
                  THEN [gui EXCEPT !.workers[w].at = "989"]
                  ELSE [gui EXCEPT
                          !.workers[w].at = "922",
                          !.workers[w].j = 1,
                          !.workers[w].folder =
                              BookOfImages(fs[gui.workers[w].list[gui.workers[w].i]]).folder,
                          !.workers[w].sections =
                              BookOfImages(fs[gui.workers[w].list[gui.workers[w].i]]).sections]
        /\ UNCHANGED <<fs, results>>
        /\ GuiFrame

\* Lines 921-927: the flag is read before each highlight; an empty section
\* is passed over, its number with it.
ImageCheck ==
    \E w \in Workers :
        /\ gui.workers[w].at = "922"
        /\ gui' = IF gui.workers[w].j > Len(gui.workers[w].sections)
                  THEN [gui EXCEPT !.workers[w].at = "901", !.workers[w].i = @ + 1]
                  ELSE IF gui.cancel_requested THEN Return(w)
                  ELSE IF Strip(gui.workers[w].sections[gui.workers[w].j]) = ""
                  THEN [gui EXCEPT !.workers[w].j = @ + 1]
                  ELSE [gui EXCEPT !.workers[w].at = "929"]
        /\ UNCHANGED <<fs, results>>
        /\ GuiFrame

\* Lines 929-969: the image of one highlight is drawn and saved in the
\* folder of its book.  Only the path of the image is kept.
ImageSave ==
    \E w \in Workers :
        /\ gui.workers[w].at = "929"
        /\ gui' = [gui EXCEPT
                     !.workers[w].at = "922",
                     !.workers[w].j = @ + 1,
                     !.images = @ \cup {gui.workers[w].folder \o "/"
                                        \o ImageName(gui.workers[w].j)}]
        /\ UNCHANGED <<fs, results>>
        /\ GuiFrame

\* Lines 978-987: success is announced unless the flag is set.
Announce ==
    \E w \in Workers :
        /\ gui.workers[w].at = "978"
        /\ gui' = IF gui.cancel_requested THEN Return(w)
                  ELSE [gui EXCEPT
                          !.workers[w] = [NewWorker EXCEPT !.at = "997",
                                                           !.outcome = "success"],
                          !.after = Append(@, "showinfo")]
        /\ UNCHANGED <<fs, results>>
        /\ GuiFrame

\* Lines 989-994: the error is announced.
Fail ==
    \E w \in Workers :
        /\ gui.workers[w].at = "989"
        /\ gui' = [gui EXCEPT
                     !.workers[w] = [NewWorker EXCEPT !.at = "997",
                                                      !.outcome = "error"],
                     !.after = Append(@, "showerror")]
        /\ UNCHANGED <<fs, results>>
        /\ GuiFrame

\* Line 997.
ResetProcessing ==
    \E w \in Workers :
        /\ gui.workers[w].at = "997"
        /\ gui' = [gui EXCEPT !.workers[w].at = "998", !.is_processing = FALSE]
        /\ UNCHANGED <<fs, results>>
        /\ GuiFrame

\* Line 998.
ResetCancel ==
    \E w \in Workers :
        /\ gui.workers[w].at = "998"
        /\ gui' = [gui EXCEPT !.workers[w].at = "999", !.cancel_requested = FALSE]
        /\ UNCHANGED <<fs, results>>
        /\ GuiFrame

\* Lines 999-1002: the Tk thread is asked to enable the process button.
EnableLater ==
    \E w \in Workers :
        /\ gui.workers[w].at = "999"
        /\ gui' = [gui EXCEPT !.workers[w].at = "1003",
                              !.after = Append(@, "enable_process")]
        /\ UNCHANGED <<fs, results>>
        /\ GuiFrame

\* Line 1003: the Tk thread is asked to disable the cancel button, and the
\* thread ends.
DisableLater ==
    \E w \in Workers :
        /\ gui.workers[w].at = "1003"
        /\ gui' = [gui EXCEPT !.workers[w].at = "done",
                              !.after = Append(@, "disable_cancel")]
        /\ UNCHANGED <<fs, results>>
        /\ GuiFrame

(***************************************************************************)
(* The Tk thread.  It runs one handler or one root.after callback at a     *)
(* time; a click on a disabled button does nothing.  cancel_processing     *)
(* reads is_processing (line 629) and writes cancel_requested (line 630),  *)
(* and a worker can run between the two.                                   *)
(***************************************************************************)
MaxStarts == 2

\* validate_prerequisites (lines 709-770) for the directory of the model,
\* together with line 775: a step is ticked, and step 1 has books to emit.
Validated ==
    /\ gui.script # {}
    /\ 1 \in gui.script => books # <<>>

\* start_processing (lines 773-789), on a click of the process button.
StartProcessing ==
    /\ gui.handler = "idle"
    /\ gui.process_button = "normal"
    /\ Len(gui.workers) < MaxStarts
    /\ Validated
    /\ gui' = [gui EXCEPT !.is_processing = TRUE,
                          !.cancel_requested = FALSE,
                          !.process_button = "disabled",
                          !.cancel_button = "normal",
                          !.workers = Append(@, NewWorker)]
    /\ UNCHANGED <<fs, results>>
    /\ GuiFrame

\* cancel_processing, lines 627-629, on a click of the cancel button.
CancelProcessing ==
    /\ gui.handler = "idle"
    /\ gui.cancel_button = "normal"
    /\ gui.is_processing
    /\ gui' = [gui EXCEPT !.handler = "630"]
    /\ UNCHANGED <<fs, results>>
    /\ GuiFrame

\* cancel_processing, line 630.
CancelSet ==
    /\ gui.handler = "630"
    /\ gui' = [gui EXCEPT !.handler = "idle", !.cancel_requested = TRUE]
    /\ UNCHANGED <<fs, results>>
    /\ GuiFrame

\* The callbacks of root.after(0, ...), in the order they were handed over.
RunAfter ==
    /\ gui.handler = "idle"
    /\ gui.after # <<>>
    /\ gui' = [gui EXCEPT
                 !.after = Tail(@),
                 !.process_button =
                     IF Head(gui.after) = "enable_process" THEN "normal" ELSE @,
                 !.cancel_button =
                     IF Head(gui.after) = "disable_cancel" THEN "disabled" ELSE @]
    /\ UNCHANGED <<fs, results>>
    /\ GuiFrame

\* The books ticked in the window: one book, or two with three highlights.
GuiBookA == [title |-> "Book A: Subtitle",
             highlights |-> << <<"t1", "Author X", "page 12", "101-105">> >>]

GuiBookB == [title |-> "AB",
             highlights |-> << <<"u1", "Y", "page 3", "7-9">>,
                               <<"u2", "Y", "page 4", "50-52">> >>]

\* A directory left by an earlier session: a simplified file whose header
\* has one line.
HeaderlessDir == [n \in {"old-S.txt"} |-> "no author line"]

InitGui ==
    /\ clips = <<>>
    /\ file = ""
    /\ content = ""
    /\ err = "none"
    /\ books \in {<<GuiBookA>>, <<GuiBookA, GuiBookB>>}
    /\ pc = "parsed"
    /\ fs \in {EmptyDir, HeaderlessDir}
    /\ fs = HeaderlessDir => books = <<GuiBookA>>
    /\ results = <<>>
    /\ runs = 0
    /\ bytes = <<>>
    /\ read = <<>>
    /\ simplified = <<>>
    /\ \E script \in (SUBSET {1, 2, 3}) \ {{}} : gui = GuiInit(script)

NextGui ==
    \/ StartProcessing \/ CancelProcessing \/ CancelSet \/ RunAfter
    \/ BeginStep1 \/ SaveBook \/ SaveReturns \/ LogResult
    \/ BeginStep2 \/ SimplifyCheck \/ SimplifyBook
    \/ BeginStep3 \/ ImagesCheck \/ ImageBook \/ ImageCheck \/ ImageSave
    \/ Announce \/ Fail
    \/ ResetProcessing \/ ResetCancel \/ EnableLater \/ DisableLater

SpecGui == InitGui /\ [][NextGui]_vars

(***************************************************************************)
(* Runs of save_highlights_to_files and simplify_highlights on one         *)
(* directory, in any order after the first save, for titles whose stems    *)
(* end in '-S' or not.                                                     *)
(***************************************************************************)
StemTitles == {"X", "X-S", "X-S: sub", "Y"}

StemHighlights == { << <<"t1", "A", "page 1", "1-2">> >>,
                    << <<"t2", "B", "page 2", "3-4">>,
                       <<"t3", "B", "page 3", "5-6">> >> }

MaxStemBooks == 2

\* A dict has each key once.
StemMappings ==
    {bs \in SeqsUpTo([title : StemTitles, highlights : StemHighlights], MaxStemBooks) :
        \A i, j \in 1 .. Len(bs) : bs[i].title = bs[j].title => i = j}

InitStems ==
    /\ clips = <<>>
    /\ file = ""
    /\ content = ""
    /\ err = "none"
    /\ books \in StemMappings
    /\ pc = "parsed"
    /\ fs = EmptyDir
    /\ results = <<>>
    /\ runs = 0
    /\ bytes = <<>>
    /\ read = <<>>
    /\ simplified = <<>>
    /\ gui = NoGui

\* save_highlights_to_files once more, after the directory was simplified.
SaveAgain ==
    /\ pc = "simplified"
    /\ runs < MaxRuns
    /\ Saved(save_highlights_to_files(books, fs))
    /\ runs' = runs + 1
    /\ pc' = "saved"
    /\ UNCHANGED <<clips, file, content, err, books, bytes, read, simplified, gui>>

\* simplify_highlights once more on the directory it has simplified.
SimplifyAgain ==
    /\ pc = "simplified"
    /\ \E listing \in Listings(fs) : Simplified(simplify_highlights(fs, listing))
    /\ pc' = "simplified"
    /\ UNCHANGED <<clips, file, content, err, books, results, runs, bytes, read, gui>>

NextStems == Save \/ Simplify \/ SaveAgain \/ SimplifyAgain

SpecStems == InitStems /\ [][NextStems]_vars

(***************************************************************************)
(* Vocabulary of the properties.                                           *)
(***************************************************************************)
IsBookmark(c) == Contains(c.meta, "Your Bookmark")

\* The metadata line opens with one of the four phrasings of the pattern.
IsHighlight(c) == \E k \in 1 .. Len(AltPrefix) : StartsAt(c.meta, AltPrefix[k], 1)

\* A highlight entry as the e-reader writes it: the descriptor is followed
\* by further '|'-separated fields.
IsWellFormed(c) == IsHighlight(c) /\ Contains(c.meta, "|")

\* The elements of a finite set of integers in increasing order.
RECURSIVE Ascending(_)
Ascending(S) == IF S = {} THEN <<>> ELSE <<Min(S)>> \o Ascending(S \ {Min(S)})

NotBookmark(c) == ~IsBookmark(c)
Recognised(c) == IsHighlight(c) \/ IsBookmark(c)

WithoutBookmarks(cs) == SelectSeq(cs, NotBookmark)
WithoutUnrecognised(cs) == SelectSeq(cs, Recognised)

\* What a highlight clipping is expected to become.
KeyOf(c) == Strip(DecodeUtf8Sig(Strip(c.title)))
TupleOf(c) ==
    LET d == Classify(Strip(c.meta))
    IN  <<Strip(c.body), Strip(c.author), d.page_info, d.location_info>>

InBooks(bs, key, tuple) ==
    \E i \in 1 .. Len(bs) :
        /\ bs[i].title = key
        /\ \E j \in 1 .. Len(bs[i].highlights) : bs[i].highlights[j] = tuple

RECURSIVE CountIn(_)
CountIn(bs) == IF bs = <<>> THEN 0 ELSE Len(bs[1].highlights) + CountIn(Tail(bs))

\* The grouping of a sequence of [key, tuple] records, stated by position:
\* keys in order of first appearance, each list the records of that key in
\* their order.
FirstOfKey(rs) == {i \in 1 .. Len(rs) : \A j \in 1 .. (i - 1) : rs[j].key # rs[i].key}
GroupedInOrder(rs) ==
    LET firsts == Ascending(FirstOfKey(rs))
    IN  [k \in 1 .. Len(firsts) |->
            LET key == rs[firsts[k]].key
                at == Ascending({i \in 1 .. Len(rs) : rs[i].key = key})
            IN  [title |-> key, highlights |-> [n \in 1 .. Len(at) |-> rs[at[n]].tuple]]]

ClipRecords(cs) == [i \in 1 .. Len(cs) |-> [key |-> KeyOf(cs[i]), tuple |-> TupleOf(cs[i])]]

C2_ExamplePageIs12 ==
    (clips = <<ExHighlight, ExBookmark>> /\ pc \in {"parsed", "saved"}) =>
        books = << [title |-> "Book A: Subtitle",
                    highlights |-> << <<"t1", "Author X", "12", "101-105">> >>] >>

\* C2 as amended: exactly one book and one highlight, location_info
\* '101-105', stem 'Book A', and page_info 'page 12': only the phrase
\* 'Your Highlight on ' is removed from the segment before the pipe.
C2_ExamplePageIsPage12 ==
    clips = <<ExHighlight, ExBookmark>> =>
        /\ pc # "failed"
        /\ pc \in {"parsed", "saved"} =>
              books = << [title |-> "Book A: Subtitle",
                          highlights |-> << <<"t1", "Author X", "page 12", "101-105">> >>] >>
        /\ pc = "saved" => results = << <<"Book A", 1>> >>

C2_Witness ==
    /\ clips = <<ExHighlight, ExBookmark>>
    /\ pc = "saved"
    /\ Len(books) = 1

(***************************************************************************)
(* C3  A clipping whose descriptor is none of the four phrasings is        *)
(* omitted without raising, and the records of the other clippings are the *)
(* same as if it were not in the input.  Stated for inputs whose other     *)
(* clippings are well-formed highlights.                                   *)
(***************************************************************************)
C3_UnrecognisedOnlyLowersCount ==
    (\A i \in 1 .. Len(clips) : IsWellFormed(clips[i]) \/ ~Recognised(clips[i])) =>
        /\ pc # "failed"
        /\ pc = "parsed" =>
              books = parse_clippings(RenderFile(WithoutUnrecognised(clips))).books

(***************************************************************************)
(* C4  The descriptor classification never raises: every descriptor the    *)
(* record pattern admits yields a (page_info, location_info) pair.         *)
(***************************************************************************)
C4_ClassificationNeverRaises ==
    /\ pc = "cleaned" =>
          \A i \in 1 .. Len(FindAll(content, 1)) :
              Classify(Strip(FindAll(content, 1)[i].g3)).err = "none"
    /\ ~(pc = "failed" /\ err = "IndexError")

(***************************************************************************)
(* C5  The pair computed for every descriptor equals the ordered policy:   *)
(* with 'page' in it, page_info is the segment before the first pipe       *)
(* without 'Your Highlight on ' and location_info the segment after that   *)
(* pipe without 'location'; otherwise with 'location' in it, location_info *)
(* is the segment before the pipe without 'Your Highlight at '; all        *)
(* trimmed, both empty by default.                                         *)
(***************************************************************************)
BeforePipe(d) ==
    LET bar == Find(d, "|", 1) IN IF bar = 0 THEN d ELSE SubSeq(d, 1, bar - 1)
AfterPipe(d) ==
    LET bar == Find(d, "|", 1)
        rest == SubSeq(d, bar + 1, Len(d))
    IN  IF bar = 0 THEN "" ELSE BeforePipe(rest)
Policy(d) ==
    IF Contains(Lower(d), "page")
    THEN <<Strip(Replace(BeforePipe(d), "Your Highlight on ", "")),
           Strip(Replace(AfterPipe(d), "location", ""))>>
    ELSE IF Contains(Lower(d), "location")
    THEN <<"", Strip(Replace(BeforePipe(d), "Your Highlight at ", ""))>>
    ELSE <<"", "">>

C5_PairFollowsPolicy ==
    pc = "cleaned" =>
        \A i \in 1 .. Len(FindAll(content, 1)) :
            LET d == Strip(FindAll(content, 1)[i].g3)
                c == Classify(d)
            IN  c.err = "none" /\ <<c.page_info, c.location_info>> = Policy(d)

MatchRecords(text) ==
    LET ms == FindAll(text, 1)
    IN  [i \in 1 .. Len(ms) |->
            [key |-> Strip(DecodeUtf8Sig(Strip(ms[i].g1))),
             tuple |-> Record(ms[i]).highlight]]

C7_PartitionByTitle ==
    pc = "parsed" =>
        LET rs == MatchRecords(content)
        IN  /\ CountIn(books) = Len(rs)
            /\ \A i, j \in 1 .. Len(books) : books[i].title = books[j].title => i = j
            /\ \A i \in 1 .. Len(books) :
                  LET at == Ascending({n \in 1 .. Len(rs) : rs[n].key = books[i].title})
                  IN  books[i].highlights = [n \in 1 .. Len(at) |-> rs[at[n]].tuple]
            /\ \A n \in 1 .. Len(rs) : \E i \in 1 .. Len(books) : books[i].title = rs[n].key

\* Two records of one title with different authors share a book.
C7_Witness ==
    /\ pc = "parsed"
    /\ \E i \in 1 .. Len(books) :
          /\ Len(books[i].highlights) >= 2
          /\ books[i].highlights[1][2] # books[i].highlights[2][2]
    /\ Len(books) >= 2

(***************************************************************************)
(* C8  Every book is written to the file named by its stem (the title up   *)
(* to its first ':', trimmed) without the characters <>:"/\|?* plus        *)
(* '.txt'; the display title returned is the stem itself.                  *)
(***************************************************************************)
UpToColon(t) == LET c == Find(t, ":", 1) IN IF c = 0 THEN t ELSE SubSeq(t, 1, c - 1)
StemOf(t) == Strip(UpToColon(t))

RECURSIVE Without(_, _)
Without(s, chars) ==
    IF chars = "" THEN s
    ELSE Without(Replace(s, Char(chars, 1), ""), SubSeq(chars, 2, Len(chars)))
NameOf(t) == Without(StemOf(t), "<>:\"/\\|?*") \o ".txt"

LastWriter(bs, i) == \A j \in (i + 1) .. Len(bs) : NameOf(bs[j].title) # NameOf(bs[i].title)

C8_FileNamedByStem ==
    pc = "saved" =>
        /\ Len(results) = Len(books)
        /\ \A i \in 1 .. Len(books) :
              /\ results[i][1] = StemOf(books[i].title)
              /\ NameOf(books[i].title) \in DOMAIN fs
              /\ LastWriter(books, i) =>
                    fs[NameOf(books[i].title)]
                        = Blocks(books[i].title, books[i].highlights, 1)
        /\ \A n \in DOMAIN fs :
              \/ n \in DOMAIN StaleDir
              \/ /\ \E i \in 1 .. Len(books) : n = NameOf(books[i].title)
                 /\ ~Contains(n, "/") /\ ~Contains(n, ":")

\* A title with a '/' before its first ':' has been written.
C8_Witness ==
    /\ pc = "saved"
    /\ \E i \in 1 .. Len(books) :
          /\ Contains(UpToColon(books[i].title), "/")
          /\ Contains(books[i].title, ":")
          /\ NameOf(books[i].title) \in DOMAIN fs

(***************************************************************************)
(* C9  Two distinct titles with the same file name: the file holds only    *)
(* the blocks of the later one, nothing is raised, and the returned list   *)
(* has one (stem, count) pair for each title.                              *)
(***************************************************************************)
C9_LaterTitleOverwrites ==
    pc = "saved" =>
        /\ err = "none"
        /\ Len(results) = Len(books)
        /\ \A i, j \in 1 .. Len(books) :
              (i < j /\ FileName(books[i].title) = FileName(books[j].title)
                     /\ \A k \in (j + 1) .. Len(books) :
                           FileName(books[k].title) # FileName(books[j].title))
              => /\ fs[FileName(books[j].title)]
                       = Blocks(books[j].title, books[j].highlights, 1)
                 /\ results[i] = <<StrippedTitle(books[i].title), Len(books[i].highlights)>>
                 /\ results[j] = <<StrippedTitle(books[j].title), Len(books[j].highlights)>>

C9_Witness ==
    /\ pc = "saved"
    /\ Len(books) = 2
    /\ books[1].title # books[2].title
    /\ FileName(books[1].title) = FileName(books[2].title)
    /\ books[1].highlights # books[2].highlights

(***************************************************************************)
(* C10  Idempotence: a further call with the same mapping and directory    *)
(* leaves every file as the call before left it and returns the same list. *)
(***************************************************************************)
C10_SaveIdempotent ==
    [][(pc = "saved" /\ pc' = "saved") => (fs' = fs /\ results' = results)]_vars

C10_Witness ==
    /\ pc = "saved"
    /\ runs = MaxRuns
    /\ Len(books) >= 2
    /\ fs = save_highlights_to_files(books, StaleDir).fs

(***************************************************************************)
(* Vocabulary of the simplified files.                                     *)
(***************************************************************************)
\* the sections of a simplified text
Sections(s) == Split(s, Separator)

\* the tag that save_highlights_to_files writes after a highlight
TagOf(title, author) == "<" \o title \o ">(" \o author \o ")"

\* the simplified files of the directory
SimplifiedNames == {n \in DOMAIN fs : EndsWith(n, "-S.txt")}

\* the '-S.txt' file written for a book title
SimplifiedName(title) == Splitext0(FileName(title)) \o "-S.txt"

(***************************************************************************)
(* C11  After the files saved from the parsed records are simplified, no   *)
(* highlight body of a simplified file holds the tag of a record or the    *)
(* 'Your Highlight on ' suffix, whichever descriptor phrasing the record   *)
(* had.                                                                    *)
(***************************************************************************)
C11_MetadataRemoved ==
    pc = "simplified" =>
        \A n \in SimplifiedNames : \A k \in 2 .. Len(Sections(fs[n])) :
            /\ ~Contains(Sections(fs[n])[k], "Your Highlight on ")
            /\ \A i \in 1 .. Len(books) : \A j \in 1 .. Len(books[i].highlights) :
                  ~Contains(Sections(fs[n])[k],
                            TagOf(books[i].title, books[i].highlights[j][2]))
(***************************************************************************)
(* C12  The example: one highlight of 'Book A: Subtitle' by 'Author X' on  *)
(* page 12, saved and then simplified.                                     *)
(***************************************************************************)
ExampleOnly ==
    /\ pc = "simplified"
    /\ Len(books) = 1
    /\ books[1].title = "Book A: Subtitle"
    /\ Len(books[1].highlights) = 1
    /\ books[1].highlights[1][2] = "Author X"
    /\ books[1].highlights[1][3] = "page 12"

\* C12 as stated: the simplified text is the header followed by the
\* highlight text itself and nothing else.
C12_HeaderThenText ==
    ExampleOnly =>
        /\ "Book A-S.txt" \in DOMAIN fs
        /\ fs["Book A-S.txt"] =
              "Book A\nAuthor X\n\n---\n\n" \o books[1].highlights[1][1]

\* C12 amended: the simplified text is the header followed by the number
\* '1. ' that save_highlights_to_files wrote and the highlight text, and
\* nothing else; no tag trails it.
C12_HeaderThenNumberedText ==
    ExampleOnly =>
        /\ "Book A-S.txt" \in DOMAIN fs
        /\ fs["Book A-S.txt"] =
              "Book A\nAuthor X\n\n---\n\n1. " \o books[1].highlights[1][1]
        /\ simplified = <<"Book A">>

C12_Witness ==
    /\ ExampleOnly
    /\ clips = <<ExHighlight>>
    /\ books[1].highlights[1][1] = "t1"
    /\ "Book A-S.txt" \in DOMAIN fs
(***************************************************************************)
(* C13  Only chunks that are non-empty after trimming and hold both '<'    *)
(* and '>' appear among the bodies of a simplified file: the bodies are,   *)
(* in order, beginnings of such chunks of the source file, one chunk each. *)
(* A chunk that lacks a bracket contributes nothing.                       *)
(***************************************************************************)
\* the files simplify_highlights reads and finds a tag in
Sources ==
    {n \in DOMAIN fs : Eligible(n) /\ extract_book_info(LStripBOM(fs[n])).found}

HasBrackets(chunk) ==
    Strip(chunk) # "" /\ Contains(chunk, "<") /\ Contains(chunk, ">")

NonEmpty(s) == s # ""

\* the chunks of a source file that may contribute
Bracketed(n) == SelectSeq(SplitBlank(LStripBOM(fs[n])), HasBrackets)

\* the bodies of the simplified file of source n
Bodies(n) == SelectSeq(Tail(Sections(fs[Splitext0(n) \o "-S.txt"])), NonEmpty)

IsPrefix(a, b) == Len(a) <= Len(b) /\ SubSeq(b, 1, Len(a)) = a

\* bodies are beginnings of the chunks cs, in order, one chunk each
FromChunks(bodies, cs) ==
    \E f \in [1 .. Len(bodies) -> 1 .. Len(cs)] :
        /\ \A i, j \in 1 .. Len(bodies) : i < j => f[i] < f[j]
        /\ \A i \in 1 .. Len(bodies) : IsPrefix(bodies[i], Strip(cs[f[i]]))

C13_OnlyBracketedChunks ==
    pc = "simplified" =>
        \A n \in Sources :
            /\ Splitext0(n) \o "-S.txt" \in DOMAIN fs
            /\ FromChunks(Bodies(n), Bracketed(n))

\* a source with a non-empty chunk that lacks a bracket has been simplified
C13_Witness ==
    /\ pc = "simplified"
    /\ \E n \in Sources :
          /\ \E i \in 1 .. Len(SplitBlank(fs[n])) :
                /\ Strip(SplitBlank(fs[n])[i]) # ""
                /\ ~Contains(SplitBlank(fs[n])[i], "<")
          /\ Len(Bodies(n)) = 2
(***************************************************************************)
(* C14  A '.txt' file with no tag gets no '-S.txt' file and no entry in    *)
(* the returned list, and the run goes on: every eligible file whose tag   *)
(* names a book and an author has its '-S.txt' file, beginning with the    *)
(* header, and the returned list has one entry for each of them.           *)
(***************************************************************************)
Untagged == {n \in DOMAIN fs : Eligible(n) /\ ~extract_book_info(LStripBOM(fs[n])).found}

TagIn(n) == extract_book_info(LStripBOM(fs[n]))

Named == {n \in Sources : TagIn(n).book_name # "" /\ TagIn(n).author # ""}

HeaderOf(n) == TagIn(n).book_name \o "\n" \o TagIn(n).author \o Separator

C14_UntaggedSkipped ==
    pc = "simplified" =>
        /\ \A n \in Untagged : Splitext0(n) \o "-S.txt" \notin DOMAIN fs
        /\ \A n \in Named :
              /\ Splitext0(n) \o "-S.txt" \in DOMAIN fs
              /\ IsPrefix(HeaderOf(n), fs[Splitext0(n) \o "-S.txt"])
        /\ Len(simplified) = Cardinality(Named)
        /\ \A n \in Named : \E i \in 1 .. Len(simplified) :
              simplified[i] = TagIn(n).book_name

\* an untagged file and two tagged ones, the one of this run listed first
C14_Witness ==
    /\ pc = "simplified"
    /\ "plain.txt" \in Untagged
    /\ Cardinality(Named) = 2
    /\ simplified[2] = "T"
(***************************************************************************)
(* C15  The simplified file of a book with n highlights has n + 1          *)
(* sections: the header, then for each k the complete text of the k-th     *)
(* highlight, with or without its number before it.  Stated for the books  *)
(* whose file name no other book of the run shares.                        *)
(***************************************************************************)
OwnFile(i) ==
    \A j \in 1 .. Len(books) :
        FileName(books[j].title) = FileName(books[i].title) => j = i

NumberOf(k) == ToString(k) \o ". "

SectionsOfBook(b, S) ==
    /\ Len(S) = Len(b.highlights) + 1
    /\ S[1] = StrippedTitle(b.title) \o "\n" \o b.highlights[1][2]
    /\ \A k \in 1 .. Len(b.highlights) :
          \/ S[k + 1] = b.highlights[k][1]
          \/ S[k + 1] = NumberOf(k) \o b.highlights[k][1]

C15_SectionPerHighlight ==
    pc = "simplified" =>
        \A i \in 1 .. Len(books) : OwnFile(i) =>
            /\ SimplifiedName(books[i].title) \in DOMAIN fs
            /\ SectionsOfBook(books[i], Sections(fs[SimplifiedName(books[i].title)]))
(***************************************************************************)
(* C16  read_file_with_encoding returns the text of the first of utf-8,    *)
(* utf-8-sig, cp1252, iso-8859-1, in that order, under which the file      *)
(* reads without error, without its leading byte-order marks; it fails     *)
(* only when the file reads under none of them, and then returns no text.  *)
(***************************************************************************)
\* the number of byte-order marks that t begins with
LeadingMarks(t) ==
    Cardinality({n \in 1 .. Len(t) : \A i \in 1 .. n : t[i] = BOMPoint})

WithoutLeadingMarks(t) == SubSeq(t, LeadingMarks(t) + 1, Len(t))

Returned(d) == err = "none" /\ read = WithoutLeadingMarks(d.text)

C16_FirstEncodingThatDecodes ==
    pc # "start" =>
        /\ Utf8Decode(bytes).ok => Returned(Utf8Decode(bytes))
        /\ ~Utf8Decode(bytes).ok /\ Utf8SigDecode(bytes).ok =>
              Returned(Utf8SigDecode(bytes))
        /\ ~Utf8Decode(bytes).ok /\ ~Utf8SigDecode(bytes).ok /\ Cp1252Decode(bytes).ok =>
              Returned(Cp1252Decode(bytes))
        /\ ~Utf8Decode(bytes).ok /\ ~Utf8SigDecode(bytes).ok /\ ~Cp1252Decode(bytes).ok
           /\ Latin1Decode(bytes).ok =>
              Returned(Latin1Decode(bytes))
        /\ err # "none" =>
              /\ read = <<>>
              /\ \A e \in {"utf-8", "utf-8-sig", "cp1252", "iso-8859-1"} :
                    ~Decode(e, bytes).ok

\* a file that is not UTF-8 has been read as cp1252
C16_Witness ==
    /\ pc = "read"
    /\ bytes = <<65, 128>>
    /\ ~Utf8Decode(bytes).ok
    /\ read = <<65, 8364>>
(***************************************************************************)
(* C17  A clippings file that is not valid UTF-8 but reads under cp1252 or *)
(* iso-8859-1 does not fail with a decode error: it is filtered and        *)
(* parsed.                                                                 *)
(***************************************************************************)
C17_DecodableFileIsParsed ==
    (~Utf8Decode(bytes).ok /\ (Cp1252Decode(bytes).ok \/ Latin1Decode(bytes).ok)) =>
        /\ err # "UnicodeDecodeError"
        /\ pc # "failed"
(***************************************************************************)
(* C18  A marker line met while the output list is empty raises no error:  *)
(* clean_file_content never ends with an IndexError, and a file whose      *)
(* first line holds the marker is cleaned.                                 *)
(***************************************************************************)
FileLines == Split(file, "\n")

\* the marker lines, by their place in the file (1 is the first line)
Markers == {i \in 1 .. Len(FileLines) : Contains(FileLines[i], "Your Bookmark")}

C18_PopOnEmptyIsNoOp ==
    /\ err # "IndexError"
    /\ (1 \in Markers /\ pc # "start") => pc = "cleaned"

(***************************************************************************)
(* C19  When every marker line has a kept line before it and the marker    *)
(* lines are at least five lines apart, the output is the input without    *)
(* the lines i-1, i, i+1, i+2, i+3 of every marker line i, the other lines *)
(* in their order; without marker lines the output is the input.           *)
(***************************************************************************)
Apart ==
    /\ 1 \notin Markers
    /\ \A i, j \in Markers : i < j => j - i >= 5

Removed == {k \in 1 .. Len(FileLines) : \E i \in Markers : k \in i - 1 .. i + 3}

KeptPlaces == (1 .. Len(FileLines)) \ Removed

\* the j-th smallest element of S
NthOf(S, j) == CHOOSE x \in S : Cardinality({y \in S : y <= x}) = j

C19_RemovesFiveLinesPerMarker ==
    (Apart /\ pc # "start") =>
        /\ pc = "cleaned"
        /\ content = Join([j \in 1 .. Cardinality(KeptPlaces) |->
                              FileLines[NthOf(KeptPlaces, j)]], "\n")

\* two marker lines, the fourth line after the first one kept
C19_Witness ==
    /\ pc = "cleaned"
    /\ Markers = {2, 8}
    /\ Len(FileLines) = 8
    /\ content = "line 6"
\* What a completed emission of book b leaves in its file.
Complete(b) == Blocks(b.title, b.highlights, 1)

\* The file names of the first k books of the mapping.
NamesUpTo(k) == {FileName(books[j].title) : j \in 1 .. k}

\* Book j is the last of the books before the k-th to write its file name.
LastBefore(j, k) ==
    \A i \in (j + 1) .. (k - 1) :
        FileName(books[i].title) # FileName(books[j].title)

\* C20 as stated: when opening or writing the file of the k-th book fails,
\* only that book's emission is aborted: the files written for books
\* 1..k-1 are complete after the failure, and the books after the k-th
\* have their complete files as well.
C20_FailureAbortsOneBook ==
    [][pc' = "failed" =>
         \E k \in 1 .. Len(books) :
            /\ \A j \in 1 .. (k - 1) :
                 LastBefore(j, k) =>
                    /\ FileName(books[j].title) \in DOMAIN fs'
                    /\ fs'[FileName(books[j].title)] = Complete(books[j])
            /\ \A j \in (k + 1) .. Len(books) :
                 LastBefore(j, Len(books) + 1) =>
                    /\ FileName(books[j].title) \in DOMAIN fs'
                    /\ fs'[FileName(books[j].title)] = Complete(books[j])]_vars

\* The file of the k-th book after the failure: a prefix of what a completed
\* emission writes, or what the name held when the k-th iteration began.
FailedFile(k) ==
    \/ /\ FileName(books[k].title) \in DOMAIN fs'
       /\ IsPrefix(fs'[FileName(books[k].title)], Complete(books[k]))
    \/ \E j \in 1 .. (k - 1) :
         /\ LastBefore(j, k)
         /\ FileName(books[j].title) = FileName(books[k].title)
         /\ FileName(books[k].title) \in DOMAIN fs'
         /\ fs'[FileName(books[k].title)] = Complete(books[j])
    \/ /\ FileName(books[k].title) \notin NamesUpTo(k - 1)
       /\ FileName(books[k].title) \notin DOMAIN fs
       /\ FileName(books[k].title) \notin DOMAIN fs'
    \/ /\ FileName(books[k].title) \notin NamesUpTo(k - 1)
       /\ FileName(books[k].title) \in DOMAIN fs
       /\ FileName(books[k].title) \in DOMAIN fs'
       /\ fs'[FileName(books[k].title)] = fs[FileName(books[k].title)]

\* What the program does instead: a failure at the k-th book aborts the
\* whole call.  The files written for books 1..k-1 under names other than
\* the k-th book's are complete, the k-th book's file is untouched or holds
\* a prefix of its text, every file not named by books 1..k is as it was
\* before the call (nothing is emitted for the books after the k-th), no
\* results are returned, and the error reaches the caller.
SaveFailureAbortsTheCall ==
    [][pc' = "failed" =>
         /\ err' = "OSError"
         /\ results' = results
         /\ \E k \in 1 .. Len(books) :
              /\ \A j \in 1 .. (k - 1) :
                   (LastBefore(j, k)
                      /\ FileName(books[j].title) # FileName(books[k].title)) =>
                      /\ FileName(books[j].title) \in DOMAIN fs'
                      /\ fs'[FileName(books[j].title)] = Complete(books[j])
              /\ FailedFile(k)
              /\ \A n \in ((DOMAIN fs) \cup (DOMAIN fs')) \ NamesUpTo(k) :
                   /\ n \in DOMAIN fs
                   /\ n \in DOMAIN fs'
                   /\ fs'[n] = fs[n]]_vars

\* The first of two books failed after one of its two blocks was written:
\* its file holds that block only, and the second book has no file.
FailedAtFirstBook ==
    /\ pc = "failed"
    /\ err = "OSError"
    /\ Len(books) = 2
    /\ Len(books[1].highlights) = 2
    /\ FileName(books[1].title) \in DOMAIN fs
    /\ fs[FileName(books[1].title)] =
           Block(1, books[1].title, books[1].highlights[1])
    /\ FileName(books[2].title) \notin DOMAIN fs
(***************************************************************************)
(* Vocabulary of the worker's steps.                                       *)
(***************************************************************************)
\* Worker w goes from line a to line b.
Moves(w, a, b) == gui.workers[w].at = a /\ gui'.workers[w].at = b

\* Worker w begins one of the three steps.
StartsStep(w) ==
    \/ Moves(w, "798", "save")
    \/ Moves(w, "839", "853")
    \/ Moves(w, "875", "901")

\* Worker w begins a book after the first one in step 1: a further
\* iteration of the loop of save_highlights_to_files.
StartsLaterBookOfStep1(w) ==
    /\ gui.workers[w].at = "save"
    /\ gui.workers[w].i >= 2
    /\ gui'.workers[w].i = gui.workers[w].i + 1

\* Worker w begins a file in step 2, or a file or a highlight in step 3.
StartsBookOfStep2Or3(w) ==
    \/ Moves(w, "853", "858")
    \/ Moves(w, "901", "905")
    \/ Moves(w, "922", "929")

\* Worker w announces that everything completed.
Announces(w) ==
    gui.workers[w].outcome # "success" /\ gui'.workers[w].outcome = "success"

\* C21 as stated: in each of the three steps the flag is checked between
\* the books, so once cancel_requested is set no worker begins a later
\* book in any step, begins a later step, or announces success.
C21_CancelStopsEveryStep ==
    [][\A w \in Workers :
          gui.cancel_requested =>
             /\ ~StartsLaterBookOfStep1(w)
             /\ ~StartsBookOfStep2Or3(w)
             /\ ~StartsStep(w)
             /\ ~Announces(w)]_vars

\* C21 amended: in steps 2 and 3 the flag is checked before each file (and
\* in step 3 before each highlight), so once cancel_requested is set no
\* worker begins a later file or highlight there, begins a later step or
\* announces success.  Step 1 does not read the flag between books: the
\* call of save_highlights_to_files emits every selected book, and the
\* flag is read only after it has returned.
C21_CancelStopsSteps2And3 ==
    [][\A w \in Workers :
          /\ gui.cancel_requested =>
                /\ ~StartsBookOfStep2Or3(w)
                /\ ~StartsStep(w)
                /\ ~Announces(w)
          /\ Moves(w, "save", "827") =>
                \A k \in 1 .. Len(books) :
                    /\ FileName(books[k].title) \in DOMAIN fs
                    /\ fs[FileName(books[k].title)] = Complete(books[k])]_vars

\* Steps 1 and 2 of two books, cancelled while the first file of step 2 was
\* being simplified: both books were emitted, one simplified file exists,
\* and the worker ended without announcing success.
C21_Witness ==
    /\ Len(gui.workers) = 1
    /\ gui.workers[1].at = "done"
    /\ gui.workers[1].outcome = ""
    /\ {"Book A.txt", "AB.txt"} \subseteq DOMAIN fs
    /\ Cardinality({"Book A-S.txt", "AB-S.txt"} \cap DOMAIN fs) = 1
\* The workers that have not ended.
Running == {w \in Workers : gui.workers[w].at # "done"}

\* A step of start_processing: a worker is added.
Starts == Len(gui'.workers) = Len(gui.workers) + 1

\* Worker w ends.
Ends(w) == gui.workers[w].at # "done" /\ gui'.workers[w].at = "done"

\* A run begins with is_processing true and cancel_requested false, and
\* with no cancel_processing between its lines 629 and 630: a request made
\* during an earlier run cannot set the flag of this one.
RunBeginsClean ==
    Starts => /\ gui'.is_processing
              /\ ~gui'.cancel_requested
              /\ gui'.handler = "idle"

\* C22  In every interleaving of start_processing, cancel_processing and
\* the worker, a cancellation requested during one run never cancels a
\* later run: each run begins with cancel_requested false and
\* is_processing true, at most one worker runs at a time, and every worker
\* ends with is_processing false.
C22_RunsDoNotInterfere ==
    [][/\ RunBeginsClean
       /\ Cardinality({w \in 1 .. Len(gui'.workers) :
                          gui'.workers[w].at # "done"}) <= 1
       /\ \A w \in Workers : Ends(w) => ~gui'.is_processing]_vars
\* A step of simplify_highlights.
Simplifies == pc' = "simplified"

\* The names simplify_highlights reads as inputs in the directory.
Inputs == {n \in DOMAIN fs : Eligible(n)}

\* The names a step has created or changed.
Written == {n \in DOMAIN fs' : n \notin DOMAIN fs \/ fs'[n] # fs[n]}

\* C23  In any sequence of runs of save_highlights_to_files and
\* simplify_highlights on one directory, a run of simplify_highlights
\* creates or changes only files whose names end in '-S.txt', reads no file
\* it writes, and leaves every per-book file written by
\* save_highlights_to_files as it was, also for titles whose stem ends in
\* '-S'.
C23_SimplifyKeepsPerBookFiles ==
    [][Simplifies =>
         /\ \A n \in Written : EndsWith(n, "-S.txt")
         /\ \A n \in Inputs :
              /\ ~EndsWith(n, "-S.txt")
              /\ \A m \in Inputs : n # Splitext0(m) \o "-S.txt"
         /\ \A k \in 1 .. Len(books) :
              /\ FileName(books[k].title) \in DOMAIN fs'
              /\ fs'[FileName(books[k].title)] = fs[FileName(books[k].title)]]_vars

====
